---------------------------- MODULE Spec2Model ----------------------------
(***************************************************************************)
(* Model of the ILI9341 command layer of src/src/lib.rs.                   *)
(*                                                                         *)
(* The crate has two layers.  The Controller owns an Interface (the        *)
(* transport) and offers one method per chip command; a method sends a     *)
(* bare opcode, or builds a Parameter Block from its Default value with a  *)
(* caller-supplied closure and sends it, or receives a Parameter Block.    *)
(* Every Parameter Block lives in a module of its own that defines the     *)
(* byte array, a Read view and a Write view; each accessor of a view is a  *)
(* few shifts and masks on the bytes.                                      *)
(*                                                                         *)
(* The model keeps one table per codec module (named after the module)     *)
(* that lists, accessor by accessor, the byte indices, shifts and masks    *)
(* the accessor's code uses.  The operators Read... and Write... below    *)
(* compute what the code of each accessor shape computes.  Two             *)
(* specifications are given: Spec runs the Controller against a            *)
(* nondeterministic transport, SpecCodec applies single accessors to the   *)
(* Parameter Blocks a caller can hold.                                     *)
(***************************************************************************)
EXTENDS Integers, Sequences, FiniteSets, TLC

VARIABLES
    overflow_checks,  \* build profile: TRUE when integer overflow panics (debug), FALSE when it wraps (release)
    pc,               \* "idle" | "building" | "returned" | "held" | "written" | "aborted"
    method,           \* Controller method in progress or just returned ("" if none)
    block,            \* codec module of the Parameter Block in hand ("" if none)
    base,             \* bytes of that block before the setter calls recorded in builder
    builder,          \* setter calls made on the block so far: sequence of <<accessor, argument>>
    data,             \* current bytes of the block (Rust data[i] is data[i + 1] here)
    calls,            \* the Interface calls made by the Controller method in progress, in order
    ret               \* what the last Controller method returned to its caller

vars == <<overflow_checks, pc, method, block, base, builder, data, calls, ret>>

(***************************************************************************)
(* Bounds of the exploration.                                              *)
(***************************************************************************)
\* setter calls made by one builder closure
MaxSetters == 2
\* setter calls already applied to a block when SpecCodec starts
MaxPrefix == 1
\* longest slice handed to the raw memory commands
MaxRaw == 2

(***************************************************************************)
(* u8 / u16 / u32 primitives of the accessors.                             *)
(***************************************************************************)
RECURSIVE BitAnd(_, _)
\* `a & b`
BitAnd(a, b) ==
    IF a = 0 \/ b = 0 THEN 0
    ELSE (a % 2) * (b % 2) + 2 * BitAnd(a \div 2, b \div 2)

RECURSIVE BitOr(_, _)
\* `a | b`
BitOr(a, b) ==
    IF a = 0 THEN b
    ELSE IF b = 0 THEN a
    ELSE (IF a % 2 = 1 \/ b % 2 = 1 THEN 1 ELSE 0) + 2 * BitOr(a \div 2, b \div 2)

\* `!a` on a u8
Not8(a) == 255 - a

\* `a << n` on a u8: the bits shifted out of the byte are lost
Shl8(a, n) == (a * (2 ^ n)) % 256

\* `a >> n`
Shr(a, n) == a \div (2 ^ n)

\* `x as u8` of an integer of any width or sign
AsU8(x) == x % 256

\* `x as i8` of a u8
AsI8(x) == IF x % 256 > 127 THEN (x % 256) - 256 ELSE x % 256

\* outcome of an accessor: a value, or the panic that aborts the process
Ok(v) == [panic |-> FALSE, val |-> v]
Panic == [panic |-> TRUE, val |-> 0]

\* data[i] = b
SetByte(D, i, b) == [D EXCEPT ![i + 1] = b]

(***************************************************************************)
(* enum_with_from!: every enum is a list of <<variant, discriminant>>.     *)
(***************************************************************************)
\* From with a fallback arm: `_ => <first variant>` in place of `_ => panic!(...)`
From_Fallback(E, v) ==
    IF \E k \in 1..Len(E) : E[k][2] = v
    THEN Ok(E[CHOOSE k \in 1..Len(E) : E[k][2] = v][1])
    ELSE Ok(E[1][1])

\* `impl From<u8>`: the variant whose discriminant is v; `_ => panic!(...)` for every other code
From(E, v) ==
    IF \E k \in 1..Len(E) : E[k][2] = v
    THEN Ok(E[CHOOSE k \in 1..Len(E) : E[k][2] = v][1])
    ELSE Panic

\* Discriminant as the position of the variant in the declaration, counted
\* from 0 (an enum declared without explicit `= value`)
Discriminant_Position(E, w) == (CHOOSE k \in 1..Len(E) : E[k][1] = w) - 1

\* `w as u8` of an enum variant
Discriminant(E, w) == E[CHOOSE k \in 1..Len(E) : E[k][1] = w][2]

\* the variants an enum declares
Variants(E) == {E[k][1] : k \in 1..Len(E)}

(***************************************************************************)
(* Read accessors.  d is the accessor's entry in the module table, D the   *)
(* byte array, oc the build profile.                                       *)
(***************************************************************************)
\* `D[i]`
ReadByte(D, d) == D[d.i + 1]

\* ReadBits with the bit position counted from the most significant bit:
\* `(D[i] >> (7 - s)) & m`
ReadBits_FromMsb(D, d) == BitAnd(Shr(D[d.i + 1], 7 - d.s), d.m)

\* ReadBits without the shift: `D[i] & m`
ReadBits_NoShift(D, d) == BitAnd(D[d.i + 1], d.m)

\* `(D[i] >> s) & m`
ReadBits(D, d) == BitAnd(Shr(D[d.i + 1], d.s), d.m)

\* `(D[i] & m) | ((D[j] >> s) & m2)`
ReadSplit(D, d) == BitOr(BitAnd(D[d.i + 1], d.m), BitAnd(Shr(D[d.j + 1], d.s), d.m2))

\* `((D[i] >> s) & m) << l`
ReadInplace(D, d) == Shl8(BitAnd(Shr(D[d.i + 1], d.s), d.m), d.l)

\* ReadBe16 with the bytes in the other order: `((D[j] as u16) << 8) | (D[i] as u16)`
ReadBe16_LowByteFirst(D, d) == BitOr(D[d.j + 1] * 256, D[d.i + 1])

\* `((D[i] as u16) << 8) | (D[j] as u16)`
ReadBe16(D, d) == BitOr(D[d.i + 1] * 256, D[d.j + 1])

\* `(((D[i] & m) as u16) << 8) | (D[j] as u16)`
ReadBe16m(D, d) == BitOr(BitAnd(D[d.i + 1], d.m) * 256, D[d.j + 1])

\* ReadBe24 with the first byte least significant:
\* `((D[k] as u32) << 16) | ((D[j] as u32) << 8) | (D[i] as u32)`
ReadBe24_LowByteFirst(D, d) == BitOr(BitOr(D[d.k + 1] * 65536, D[d.j + 1] * 256), D[d.i + 1])

\* `((D[i] as u32) << 16) | ((D[j] as u32) << 8) | (D[k] as u32)`
ReadBe24(D, d) == BitOr(BitOr(D[d.i + 1] * 65536, D[d.j + 1] * 256), D[d.k + 1])

\* `&D[a..b]`: the stored bytes themselves
ReadSlice(D, d) == SubSeq(D, d.a + 1, d.b)

\* ReadBiased that adds the bias to the wire code as stored: `(D[i] & m) + add`
ReadBiased_WirePlusBias(D, d, oc) ==
    LET y == BitAnd(D[d.i + 1], d.m) + d.add
    IN  IF oc /\ y > 255 THEN Panic ELSE Ok(AsU8(y))

\* `(((D[i] & m) - sub) as u8) + add` on u8: each step panics on overflow
\* when overflow checks are on and wraps otherwise
ReadBiased(D, d, oc) ==
    LET x == BitAnd(D[d.i + 1], d.m) - d.sub
        y == AsU8(x) + d.add
    IN  IF oc /\ (x < 0 \/ y > 255) THEN Panic ELSE Ok(AsU8(y))

\* ReadBiasedI8 that takes the lowest wire code for the stored field,
\* `(((D[i] & m) & 0) as i8) + add`
ReadBiasedI8_LowestCode(D, d, oc) == Ok(d.add)

\* `(((D[i] & m) - sub) as i8) + add`: the subtraction is on u8, the addition on i8
ReadBiasedI8(D, d, oc) ==
    LET x == BitAnd(D[d.i + 1], d.m) - d.sub
        y == AsI8(AsU8(x)) + d.add
    IN  IF oc /\ (x < 0 \/ y < -128 \/ y > 127) THEN Panic ELSE Ok(AsI8(AsU8(y)))

\* the integer an accessor hands to `!= 0` or to `From`
ReadRaw(D, d) ==
    CASE d.form = "byte"  -> ReadByte(D, d)
      [] d.form = "bits"  -> ReadBits(D, d)
      [] d.form = "split" -> ReadSplit(D, d)

\* a read accessor of a Read view
ReadField(D, d, oc) ==
    CASE d.form = "byte"      -> Ok(ReadByte(D, d))
      [] d.form = "bits"      -> Ok(ReadBits(D, d))
      [] d.form = "flag"      -> Ok(ReadRaw(D, d.of) # 0)
      [] d.form = "enum"      -> From(d.enum, ReadRaw(D, d.of))
      [] d.form = "inplace"   -> Ok(ReadInplace(D, d))
      [] d.form = "be16"      -> Ok(ReadBe16(D, d))
      [] d.form = "be16m"     -> Ok(ReadBe16m(D, d))
      [] d.form = "be24"      -> Ok(ReadBe24(D, d))
      [] d.form = "slice"     -> Ok(ReadSlice(D, d))
      [] d.form = "biased"    -> ReadBiased(D, d, oc)
      [] d.form = "biased_i8" -> ReadBiasedI8(D, d, oc)

(***************************************************************************)
(* Write accessors: the byte array after the setter ran on D with w.       *)
(***************************************************************************)
\* `D[i] = w`
WriteByte(D, d, w) == SetByte(D, d.i, w)

\* WriteBits without the mask on the value: `D[i] &= !(m << s); D[i] |= w << s`
WriteBits_NoValueMask(D, d, w) ==
    SetByte(D, d.i, BitOr(BitAnd(D[d.i + 1], Not8(Shl8(d.m, d.s))), Shl8(w, d.s)))

\* WriteBits without the clear step: `D[i] |= (w & m) << s`
WriteBits_NoClear(D, d, w) ==
    SetByte(D, d.i, BitOr(D[d.i + 1], Shl8(BitAnd(w, d.m), d.s)))

\* `D[i] &= !(m << s); D[i] |= (w & m) << s`
WriteBits(D, d, w) ==
    SetByte(D, d.i, BitOr(BitAnd(D[d.i + 1], Not8(Shl8(d.m, d.s))), Shl8(BitAnd(w, d.m), d.s)))

\* `D[i] &= !(0x01 << s); D[i] |= (w as u8) << s`
WriteFlag(D, d, w) ==
    SetByte(D, d.i, BitOr(BitAnd(D[d.i + 1], Not8(Shl8(1, d.s))), Shl8(IF w THEN 1 ELSE 0, d.s)))

\* `D[i] &= !(m); D[i] |= w & m; D[j] &= !(m2 << s); D[j] |= (w & m2) << s`
WriteSplit(D, d, w) ==
    LET D1 == SetByte(D, d.i, BitOr(BitAnd(D[d.i + 1], Not8(d.m)), BitAnd(w, d.m)))
    IN  SetByte(D1, d.j, BitOr(BitAnd(D1[d.j + 1], Not8(Shl8(d.m2, d.s))), Shl8(BitAnd(w, d.m2), d.s)))

\* `D[i] &= !(m << s); D[i] |= ((w >> r) & m) << s`
WriteInplace(D, d, w) ==
    SetByte(D, d.i, BitOr(BitAnd(D[d.i + 1], Not8(Shl8(d.m, d.s))), Shl8(BitAnd(Shr(w, d.r), d.m), d.s)))

\* WriteBe16 with the two bytes exchanged: `D[i] = w as u8; D[j] = (w >> 8) as u8`
WriteBe16_LowByteFirst(D, d, w) == SetByte(SetByte(D, d.i, AsU8(w)), d.j, AsU8(Shr(w, 8)))

\* `D[i] = (w >> 8) as u8; D[j] = w as u8`
WriteBe16(D, d, w) == SetByte(SetByte(D, d.i, AsU8(Shr(w, 8))), d.j, AsU8(w))

\* `D[i] &= !(m); D[i] |= ((w >> 8) & m) as u8; D[j] = w as u8`
WriteBe16m(D, d, w) ==
    SetByte(SetByte(D, d.i, BitOr(BitAnd(D[d.i + 1], Not8(d.m)), AsU8(BitAnd(Shr(w, 8), d.m)))), d.j, AsU8(w))

\* `D[i] = (w >> 16) as u8; D[j] = (w >> 8) as u8; D[k] = w as u8`
WriteBe24(D, d, w) ==
    SetByte(SetByte(SetByte(D, d.i, AsU8(Shr(w, 16))), d.j, AsU8(Shr(w, 8))), d.k, AsU8(w))

\* WriteSlice that clears the elements a short w does not reach:
\* `D[a..b].fill(0)` before the copy
WriteSlice_ZeroFills(D, d, w) ==
    [n \in 1..Len(D) |->
        IF n > d.a /\ n <= d.b
        THEN IF n - d.a <= Len(w) THEN Shl8(BitAnd(w[n - d.a], d.m), d.s) ELSE 0
        ELSE D[n]]

\* WriteSlice on a growable buffer: elements of w beyond the field are appended,
\* `data.truncate(a); data.extend(w.iter().map(|ww| (ww & m) << s))` for a long w
WriteSlice_Grows(D, d, w) ==
    IF Len(w) <= d.b - d.a
    THEN [n \in 1..Len(D) |->
            IF n > d.a /\ n - d.a <= Len(w) THEN Shl8(BitAnd(w[n - d.a], d.m), d.s) ELSE D[n]]
    ELSE D \o [n \in 1..(Len(w) - (d.b - d.a)) |-> Shl8(BitAnd(w[n + (d.b - d.a)], d.m), d.s)]

\* `D[a..b].iter_mut().zip(w.iter()).for_each(|(dd, ww)| *dd = (*ww & m) << s)`:
\* zip stops at the shorter of the two, every byte it reaches is overwritten whole
WriteSlice(D, d, w) ==
    [n \in 1..Len(D) |->
        IF n > d.a /\ n <= d.b /\ n - d.a <= Len(w)
        THEN Shl8(BitAnd(w[n - d.a], d.m), d.s)
        ELSE D[n]]

\* WriteBiased that stores the value less the bias: `let w = (w - sub) as u8; ...`
WriteBiased_NoAdd(D, d, w, oc) ==
    LET x == w - d.sub
    IN  IF oc /\ x < 0 THEN Panic
        ELSE Ok(SetByte(D, d.i, BitOr(BitAnd(D[d.i + 1], Not8(d.m)), BitAnd(AsU8(x), d.m))))

\* `let w = ((w - sub) as u8) + add; D[i] &= !(m); D[i] |= w & m` with w: u8
WriteBiased(D, d, w, oc) ==
    LET x == w - d.sub
        y == AsU8(x) + d.add
    IN  IF oc /\ (x < 0 \/ y > 255) THEN Panic
        ELSE Ok(SetByte(D, d.i, BitOr(BitAnd(D[d.i + 1], Not8(d.m)), BitAnd(AsU8(y), d.m))))

\* WriteBiasedI8 without the offset of the lowest wire code: `let w = (w - sub) as u8; ...`
WriteBiasedI8_NoAdd(D, d, w, oc) ==
    LET x == w - d.sub
    IN  IF oc /\ (x < -128 \/ x > 127) THEN Panic
        ELSE Ok(SetByte(D, d.i, BitOr(BitAnd(D[d.i + 1], Not8(d.m)), BitAnd(AsU8(x), d.m))))

\* the same with w: i8: the subtraction is on i8, the addition on u8
WriteBiasedI8(D, d, w, oc) ==
    LET x == w - d.sub
        y == AsU8(x) + d.add
    IN  IF oc /\ (x < -128 \/ x > 127 \/ y > 255) THEN Panic
        ELSE Ok(SetByte(D, d.i, BitOr(BitAnd(D[d.i + 1], Not8(d.m)), BitAnd(AsU8(y), d.m))))

\* the bytes a setter stores `w as u8` into
WriteRaw(D, d, w) ==
    CASE d.form = "byte"  -> WriteByte(D, d, w)
      [] d.form = "bits"  -> WriteBits(D, d, w)
      [] d.form = "split" -> WriteSplit(D, d, w)

\* a setter of a Write view
WriteField(D, d, w, oc) ==
    CASE d.form = "byte"      -> Ok(WriteByte(D, d, w))
      [] d.form = "bits"      -> Ok(WriteBits(D, d, w))
      [] d.form = "flag"      -> Ok(WriteFlag(D, d, w))
      [] d.form = "enum"      -> Ok(WriteRaw(D, d.of, Discriminant(d.enum, w)))
      [] d.form = "inplace"   -> Ok(WriteInplace(D, d, w))
      [] d.form = "be16"      -> Ok(WriteBe16(D, d, w))
      [] d.form = "be16m"     -> Ok(WriteBe16m(D, d, w))
      [] d.form = "be24"      -> Ok(WriteBe24(D, d, w))
      [] d.form = "slice"     -> Ok(WriteSlice(D, d, w))
      [] d.form = "biased"    -> WriteBiased(D, d, w, oc)
      [] d.form = "biased_i8" -> WriteBiasedI8(D, d, w, oc)

(***************************************************************************)
(* The codec modules.  One table per module: the struct it defines, its     *)
(* `impl Default` bytes, and for every accessor of the Read view and of the *)
(* Write view the shape of its code with the byte indices, shifts and masks *)
(* it uses.  Enums are the `enum_with_from!` lists of the module.           *)
(***************************************************************************)
\* mod read_display_identification_information: struct DisplayIdentificationInformation { data: [u8; 3] }
read_display_identification_information ==
    [ struct  |-> "DisplayIdentificationInformation",
      default |-> <<0, 0, 0>>,
      read    |-> [
          lcd_modules_manufacturer_id |-> [form |-> "byte", i |-> 0],
          lcd_module_driver_version_id |-> [form |-> "byte", i |-> 1],
          lcd_module_driver_id |-> [form |-> "byte", i |-> 2]
      ],
      write   |-> [
          lcd_modules_manufacturer_id |-> [form |-> "byte", i |-> 0],
          lcd_module_driver_version_id |-> [form |-> "byte", i |-> 1],
          lcd_module_driver_id |-> [form |-> "byte", i |-> 2]
      ] ]

\* mod read_display_status: struct DisplayStatus { data: [u8; 4] }
read_display_status ==
    LET BoosterVoltageStatus ==
         <<
            <<"BoosterOff", 0>>, <<"BoosterOn", 1>>
         >>
        RowAddressOrder ==
         <<
            <<"TopToBottomWhenMadctlB7Eq0", 0>>, <<"BottomToTopWhenMadctlB7Eq1", 1>>
         >>
        ColumnAddressOrder ==
         <<
            <<"LeftToRightWhenMadctlB6Eq0", 0>>, <<"RightToLeftWhenMadctlB6Eq1", 1>>
         >>
        RowColumnExchange ==
         <<
            <<"NormalModeWhenMadctlB5Eq0", 0>>, <<"ReverseModeWhenMadctlB5Eq1", 1>>
         >>
        VerticalRefresh ==
         <<
            <<"LcdRefreshTopToBottomWhenMadctlB4Eq0", 0>>, <<"LcdRefreshBottomToTopWhenMadctlB4Eq1",
            1>>
         >>
        RgbBgrOrder ==
         <<
            <<"RgbWhenMadctlB3Eq0", 0>>, <<"BgrWhenMadctlB3Eq1", 1>>
         >>
        HorizontalRefreshOrder ==
         <<
            <<"LcdRefreshLeftToRightWhenMadctlB2Eq0", 0>>, <<"LcdRefreshRightToLeftWhenMadctlB2Eq1",
            1>>
         >>
        InterfaceColorPixelFormat ==
         <<
            <<"N16BitPerPixel", 5>>, <<"N18BitPerPixel", 6>>
         >>
        IdleMode ==
         <<
            <<"IdleModeOff", 0>>, <<"IdleModeOn", 1>>
         >>
        PartialMode ==
         <<
            <<"PartialModeOff", 0>>, <<"PartialModeOn", 1>>
         >>
        Sleep ==
         <<
            <<"SleepInMode", 0>>, <<"SleepOutMode", 1>>
         >>
        DisplayNormalMode ==
         <<
            <<"DisplayNormalModeOff", 0>>, <<"DisplayNormalModeOn", 1>>
         >>
        VerticalScrollingStatus ==
         <<
            <<"ScrollOff", 0>>
         >>
        Display ==
         <<
            <<"DisplayIsOff", 0>>, <<"DisplayIsOn", 1>>
         >>
        TearingEffectLine ==
         <<
            <<"TearingEffectLineOff", 0>>, <<"TearingEffectOn", 1>>
         >>
        GammaCurveSelection ==
         <<
            <<"Gc0", 0>>
         >>
        TearingEffectLineMode ==
         <<
            <<"Mode1VBlankingOnly", 0>>, <<"Mode2BothHBlankingAndVBlanking", 1>>
         >>
    IN
    [ struct  |-> "DisplayStatus",
      default |-> <<0, 97, 0, 0>>,
      read    |-> [
          booster_voltage_status |-> [form |-> "enum", enum |-> BoosterVoltageStatus, of |-> [form |-> "bits", i |-> 0, s |-> 7, m |-> 1]],
          row_address_order |-> [form |-> "enum", enum |-> RowAddressOrder, of |-> [form |-> "bits", i |-> 0, s |-> 6, m |-> 1]],
          column_address_order |-> [form |-> "enum", enum |-> ColumnAddressOrder, of |-> [form |-> "bits", i |-> 0, s |-> 5, m |-> 1]],
          row_column_exchange |-> [form |-> "enum", enum |-> RowColumnExchange, of |-> [form |-> "bits", i |-> 0, s |-> 4, m |-> 1]],
          vertical_refresh |-> [form |-> "enum", enum |-> VerticalRefresh, of |-> [form |-> "bits", i |-> 0, s |-> 3, m |-> 1]],
          rgb_bgr_order |-> [form |-> "enum", enum |-> RgbBgrOrder, of |-> [form |-> "bits", i |-> 0, s |-> 2, m |-> 1]],
          horizontal_refresh_order |-> [form |-> "enum", enum |-> HorizontalRefreshOrder, of |-> [form |-> "bits", i |-> 0, s |-> 1, m |-> 1]],
          interface_color_pixel_format |-> [form |-> "enum", enum |-> InterfaceColorPixelFormat, of |-> [form |-> "bits", i |-> 1, s |-> 4, m |-> 7]],
          idle_mode |-> [form |-> "enum", enum |-> IdleMode, of |-> [form |-> "bits", i |-> 1, s |-> 3, m |-> 1]],
          partial_mode |-> [form |-> "enum", enum |-> PartialMode, of |-> [form |-> "bits", i |-> 1, s |-> 2, m |-> 1]],
          sleep |-> [form |-> "enum", enum |-> Sleep, of |-> [form |-> "bits", i |-> 1, s |-> 1, m |-> 1]],
          display_normal_mode |-> [form |-> "enum", enum |-> DisplayNormalMode, of |-> [form |-> "bits", i |-> 1, s |-> 0, m |-> 1]],
          vertical_scrolling_status |-> [form |-> "enum", enum |-> VerticalScrollingStatus, of |-> [form |-> "bits", i |-> 2, s |-> 7, m |-> 1]],
          display |-> [form |-> "enum", enum |-> Display, of |-> [form |-> "bits", i |-> 2, s |-> 2, m |-> 1]],
          tearing_effect_line |-> [form |-> "enum", enum |-> TearingEffectLine, of |-> [form |-> "bits", i |-> 2, s |-> 1, m |-> 1]],
          gamma_curve_selection |-> [form |-> "enum", enum |-> GammaCurveSelection, of |-> [form |-> "split", i |-> 2, m |-> 1, j |-> 3, s |-> 6, m2 |-> 3]],
          tearing_effect_line_mode |-> [form |-> "enum", enum |-> TearingEffectLineMode, of |-> [form |-> "bits", i |-> 3, s |-> 5, m |-> 1]]
      ],
      write   |-> [
          booster_voltage_status |-> [form |-> "enum", enum |-> BoosterVoltageStatus, of |-> [form |-> "bits", i |-> 0, s |-> 7, m |-> 1]],
          row_address_order |-> [form |-> "enum", enum |-> RowAddressOrder, of |-> [form |-> "bits", i |-> 0, s |-> 6, m |-> 1]],
          column_address_order |-> [form |-> "enum", enum |-> ColumnAddressOrder, of |-> [form |-> "bits", i |-> 0, s |-> 5, m |-> 1]],
          row_column_exchange |-> [form |-> "enum", enum |-> RowColumnExchange, of |-> [form |-> "bits", i |-> 0, s |-> 4, m |-> 1]],
          vertical_refresh |-> [form |-> "enum", enum |-> VerticalRefresh, of |-> [form |-> "bits", i |-> 0, s |-> 3, m |-> 1]],
          rgb_bgr_order |-> [form |-> "enum", enum |-> RgbBgrOrder, of |-> [form |-> "bits", i |-> 0, s |-> 2, m |-> 1]],
          horizontal_refresh_order |-> [form |-> "enum", enum |-> HorizontalRefreshOrder, of |-> [form |-> "bits", i |-> 0, s |-> 1, m |-> 1]],
          interface_color_pixel_format |-> [form |-> "enum", enum |-> InterfaceColorPixelFormat, of |-> [form |-> "bits", i |-> 1, s |-> 4, m |-> 7]],
          idle_mode |-> [form |-> "enum", enum |-> IdleMode, of |-> [form |-> "bits", i |-> 1, s |-> 3, m |-> 1]],
          partial_mode |-> [form |-> "enum", enum |-> PartialMode, of |-> [form |-> "bits", i |-> 1, s |-> 2, m |-> 1]],
          sleep |-> [form |-> "enum", enum |-> Sleep, of |-> [form |-> "bits", i |-> 1, s |-> 1, m |-> 1]],
          display_normal_mode |-> [form |-> "enum", enum |-> DisplayNormalMode, of |-> [form |-> "bits", i |-> 1, s |-> 0, m |-> 1]],
          vertical_scrolling_status |-> [form |-> "enum", enum |-> VerticalScrollingStatus, of |-> [form |-> "bits", i |-> 2, s |-> 7, m |-> 1]],
          display |-> [form |-> "enum", enum |-> Display, of |-> [form |-> "bits", i |-> 2, s |-> 2, m |-> 1]],
          tearing_effect_line |-> [form |-> "enum", enum |-> TearingEffectLine, of |-> [form |-> "bits", i |-> 2, s |-> 1, m |-> 1]],
          gamma_curve_selection |-> [form |-> "enum", enum |-> GammaCurveSelection, of |-> [form |-> "split", i |-> 2, m |-> 1, j |-> 3, m2 |-> 3, s |-> 6]],
          tearing_effect_line_mode |-> [form |-> "enum", enum |-> TearingEffectLineMode, of |-> [form |-> "bits", i |-> 3, s |-> 5, m |-> 1]]
      ] ]

\* mod read_display_power_mode: struct DisplayPowerMode { data: [u8; 1] }
read_display_power_mode ==
    LET Booster ==
         <<
            <<"BoosterOffOrHasAFault", 0>>, <<"BoosterOnAndWorkingOk", 1>>
         >>
        IdleMode ==
         <<
            <<"IdleModeOff", 0>>, <<"IdleModeOn", 1>>
         >>
        PartialMode ==
         <<
            <<"PartialModeOff", 0>>, <<"PartialModeOn", 1>>
         >>
        Sleep ==
         <<
            <<"SleepInMode", 0>>, <<"SleepOutMode", 1>>
         >>
        DisplayNormalMode ==
         <<
            <<"DisplayNormalModeOff", 0>>, <<"DisplayNormalModeOn", 1>>
         >>
        DisplayIs ==
         <<
            <<"DisplayIsOff", 0>>, <<"DisplayIsOn", 1>>
         >>
    IN
    [ struct  |-> "DisplayPowerMode",
      default |-> <<8>>,
      read    |-> [
          booster |-> [form |-> "enum", enum |-> Booster, of |-> [form |-> "bits", i |-> 0, s |-> 7, m |-> 1]],
          idle_mode |-> [form |-> "enum", enum |-> IdleMode, of |-> [form |-> "bits", i |-> 0, s |-> 6, m |-> 1]],
          partial_mode |-> [form |-> "enum", enum |-> PartialMode, of |-> [form |-> "bits", i |-> 0, s |-> 5, m |-> 1]],
          sleep |-> [form |-> "enum", enum |-> Sleep, of |-> [form |-> "bits", i |-> 0, s |-> 4, m |-> 1]],
          display_normal_mode |-> [form |-> "enum", enum |-> DisplayNormalMode, of |-> [form |-> "bits", i |-> 0, s |-> 3, m |-> 1]],
          display_is |-> [form |-> "enum", enum |-> DisplayIs, of |-> [form |-> "bits", i |-> 0, s |-> 2, m |-> 1]]
      ],
      write   |-> [
          booster |-> [form |-> "enum", enum |-> Booster, of |-> [form |-> "bits", i |-> 0, s |-> 7, m |-> 1]],
          idle_mode |-> [form |-> "enum", enum |-> IdleMode, of |-> [form |-> "bits", i |-> 0, s |-> 6, m |-> 1]],
          partial_mode |-> [form |-> "enum", enum |-> PartialMode, of |-> [form |-> "bits", i |-> 0, s |-> 5, m |-> 1]],
          sleep |-> [form |-> "enum", enum |-> Sleep, of |-> [form |-> "bits", i |-> 0, s |-> 4, m |-> 1]],
          display_normal_mode |-> [form |-> "enum", enum |-> DisplayNormalMode, of |-> [form |-> "bits", i |-> 0, s |-> 3, m |-> 1]],
          display_is |-> [form |-> "enum", enum |-> DisplayIs, of |-> [form |-> "bits", i |-> 0, s |-> 2, m |-> 1]]
      ] ]

\* mod read_display_madctl: struct DisplayMadctl { data: [u8; 1] }
read_display_madctl ==
    LET RowAddressOrder ==
         <<
            <<"TopToBottomWhenMadctlB7Eq0", 0>>, <<"BottomToTopWhenMadctlB7Eq1", 1>>
         >>
        ColumnAddressOrder ==
         <<
            <<"LeftToRightWhenMadctlB6Eq0", 0>>, <<"RightToLeftWhenMadctlB6Eq1", 1>>
         >>
        RowColumnExchange ==
         <<
            <<"NormalModeWhenMadctlB5Eq0", 0>>, <<"ReverseModeWhenMadctlB5Eq1", 1>>
         >>
        VerticalRefresh ==
         <<
            <<"LcdRefreshTopToBottomWhenMadctlB4Eq0", 0>>, <<"LcdRefreshBottomToTopWhenMadctlB4Eq1",
            1>>
         >>
        RgbBgrOrder ==
         <<
            <<"RgbWhenMadctlB3Eq0", 0>>, <<"BgrWhenMadctlB3Eq1", 1>>
         >>
        HorizontalRefreshOrder ==
         <<
            <<"LcdRefreshLeftToRightWhenMadctlB2Eq0", 0>>, <<"LcdRefreshRightToLeftWhenMadctlB2Eq1",
            1>>
         >>
    IN
    [ struct  |-> "DisplayMadctl",
      default |-> <<0>>,
      read    |-> [
          row_address_order |-> [form |-> "enum", enum |-> RowAddressOrder, of |-> [form |-> "bits", i |-> 0, s |-> 7, m |-> 1]],
          column_address_order |-> [form |-> "enum", enum |-> ColumnAddressOrder, of |-> [form |-> "bits", i |-> 0, s |-> 6, m |-> 1]],
          row_column_exchange |-> [form |-> "enum", enum |-> RowColumnExchange, of |-> [form |-> "bits", i |-> 0, s |-> 5, m |-> 1]],
          vertical_refresh |-> [form |-> "enum", enum |-> VerticalRefresh, of |-> [form |-> "bits", i |-> 0, s |-> 4, m |-> 1]],
          rgb_bgr_order |-> [form |-> "enum", enum |-> RgbBgrOrder, of |-> [form |-> "bits", i |-> 0, s |-> 3, m |-> 1]],
          horizontal_refresh_order |-> [form |-> "enum", enum |-> HorizontalRefreshOrder, of |-> [form |-> "bits", i |-> 0, s |-> 2, m |-> 1]]
      ],
      write   |-> [
          row_address_order |-> [form |-> "enum", enum |-> RowAddressOrder, of |-> [form |-> "bits", i |-> 0, s |-> 7, m |-> 1]],
          column_address_order |-> [form |-> "enum", enum |-> ColumnAddressOrder, of |-> [form |-> "bits", i |-> 0, s |-> 6, m |-> 1]],
          row_column_exchange |-> [form |-> "enum", enum |-> RowColumnExchange, of |-> [form |-> "bits", i |-> 0, s |-> 5, m |-> 1]],
          vertical_refresh |-> [form |-> "enum", enum |-> VerticalRefresh, of |-> [form |-> "bits", i |-> 0, s |-> 4, m |-> 1]],
          rgb_bgr_order |-> [form |-> "enum", enum |-> RgbBgrOrder, of |-> [form |-> "bits", i |-> 0, s |-> 3, m |-> 1]],
          horizontal_refresh_order |-> [form |-> "enum", enum |-> HorizontalRefreshOrder, of |-> [form |-> "bits", i |-> 0, s |-> 2, m |-> 1]]
      ] ]

\* mod read_display_pixel_format: struct DisplayPixelFormat { data: [u8; 1] }
read_display_pixel_format ==
    LET RgbInterfaceFormat ==
         <<
            <<"N16Bits", 5>>, <<"N18Bits", 6>>, <<"N16Bits6Bit3TimesDataTransfer", 13>>,
            <<"N18Bits6Bit3TimesDataTransfer", 14>>
         >>
        McuInterfaceFormat ==
         <<
            <<"N16Bits", 5>>, <<"N18Bits", 6>>
         >>
    IN
    [ struct  |-> "DisplayPixelFormat",
      default |-> <<6>>,
      read    |-> [
          rgb_interface_format |-> [form |-> "enum", enum |-> RgbInterfaceFormat, of |-> [form |-> "bits", i |-> 0, s |-> 4, m |-> 15]],
          mcu_interface_format |-> [form |-> "enum", enum |-> McuInterfaceFormat, of |-> [form |-> "bits", i |-> 0, s |-> 0, m |-> 7]]
      ],
      write   |-> [
          rgb_interface_format |-> [form |-> "enum", enum |-> RgbInterfaceFormat, of |-> [form |-> "bits", i |-> 0, s |-> 4, m |-> 15]],
          mcu_interface_format |-> [form |-> "enum", enum |-> McuInterfaceFormat, of |-> [form |-> "bits", i |-> 0, s |-> 0, m |-> 7]]
      ] ]

\* mod read_display_image_format: struct DisplayImageFormat { data: [u8; 1] }
read_display_image_format ==
    LET GammaCurveSelection ==
         <<
            <<"GammaCurve1G2o2", 0>>
         >>
    IN
    [ struct  |-> "DisplayImageFormat",
      default |-> <<0>>,
      read    |-> [
          gamma_curve_selection |-> [form |-> "enum", enum |-> GammaCurveSelection, of |-> [form |-> "bits", i |-> 0, s |-> 0, m |-> 7]]
      ],
      write   |-> [
          gamma_curve_selection |-> [form |-> "enum", enum |-> GammaCurveSelection, of |-> [form |-> "bits", i |-> 0, s |-> 0, m |-> 7]]
      ] ]

\* mod read_display_signal_mode: struct DisplaySignalMode { data: [u8; 1] }
read_display_signal_mode ==
    LET TearingEffectLine ==
         <<
            <<"TearingEffectLineOff", 0>>, <<"TearingEffectLineOn", 1>>
         >>
        TearingEffectLineMode ==
         <<
            <<"TearingEffectLineMode1", 0>>, <<"TearingEffectLineMode2", 1>>
         >>
        HorizontalSync ==
         <<
            <<"HorizontalSyncRgbInterfaceOff", 0>>, <<"HorizontalSyncRgbInterfaceOn", 1>>
         >>
        VerticalSync ==
         <<
            <<"VerticalSyncRgbInterfaceOff", 0>>, <<"VerticalSyncRgbInterfaceOn", 1>>
         >>
        PixelClock ==
         <<
            <<"PixelClockDotclkRgbInterfaceOff", 0>>, <<"PixelClockDotclkRgbInterfaceOn", 1>>
         >>
        DataEnable ==
         <<
            <<"DataEnableDeRgbInterfaceOff", 0>>, <<"DataEnableDeRgbInterfaceOn", 1>>
         >>
    IN
    [ struct  |-> "DisplaySignalMode",
      default |-> <<0>>,
      read    |-> [
          tearing_effect_line |-> [form |-> "enum", enum |-> TearingEffectLine, of |-> [form |-> "bits", i |-> 0, s |-> 7, m |-> 1]],
          tearing_effect_line_mode |-> [form |-> "enum", enum |-> TearingEffectLineMode, of |-> [form |-> "bits", i |-> 0, s |-> 6, m |-> 1]],
          horizontal_sync |-> [form |-> "enum", enum |-> HorizontalSync, of |-> [form |-> "bits", i |-> 0, s |-> 5, m |-> 1]],
          vertical_sync |-> [form |-> "enum", enum |-> VerticalSync, of |-> [form |-> "bits", i |-> 0, s |-> 4, m |-> 1]],
          pixel_clock |-> [form |-> "enum", enum |-> PixelClock, of |-> [form |-> "bits", i |-> 0, s |-> 3, m |-> 1]],
          data_enable |-> [form |-> "enum", enum |-> DataEnable, of |-> [form |-> "bits", i |-> 0, s |-> 2, m |-> 1]]
      ],
      write   |-> [
          tearing_effect_line |-> [form |-> "enum", enum |-> TearingEffectLine, of |-> [form |-> "bits", i |-> 0, s |-> 7, m |-> 1]],
          tearing_effect_line_mode |-> [form |-> "enum", enum |-> TearingEffectLineMode, of |-> [form |-> "bits", i |-> 0, s |-> 6, m |-> 1]],
          horizontal_sync |-> [form |-> "enum", enum |-> HorizontalSync, of |-> [form |-> "bits", i |-> 0, s |-> 5, m |-> 1]],
          vertical_sync |-> [form |-> "enum", enum |-> VerticalSync, of |-> [form |-> "bits", i |-> 0, s |-> 4, m |-> 1]],
          pixel_clock |-> [form |-> "enum", enum |-> PixelClock, of |-> [form |-> "bits", i |-> 0, s |-> 3, m |-> 1]],
          data_enable |-> [form |-> "enum", enum |-> DataEnable, of |-> [form |-> "bits", i |-> 0, s |-> 2, m |-> 1]]
      ] ]

\* mod read_display_self_diagnostic_result: struct DisplaySelfDiagnosticResult { data: [u8; 1] }
read_display_self_diagnostic_result ==
    [ struct  |-> "DisplaySelfDiagnosticResult",
      default |-> <<0>>,
      read    |-> [
          d |-> [form |-> "inplace", i |-> 0, s |-> 6, m |-> 3, l |-> 6]
      ],
      write   |-> [
          d |-> [form |-> "inplace", i |-> 0, m |-> 3, s |-> 6, r |-> 6]
      ] ]

\* mod gamma: struct GammaSet { data: [u8; 1] }
gamma ==
    LET CurveSelected ==
         <<
            <<"GammaCurve1G2o2", 1>>
         >>
    IN
    [ struct  |-> "GammaSet",
      default |-> <<1>>,
      read    |-> [
          curve_selected |-> [form |-> "enum", enum |-> CurveSelected, of |-> [form |-> "byte", i |-> 0]]
      ],
      write   |-> [
          curve_selected |-> [form |-> "enum", enum |-> CurveSelected, of |-> [form |-> "byte", i |-> 0]]
      ] ]

\* mod column_address: struct ColumnAddressSet { data: [u8; 4] }
column_address ==
    [ struct  |-> "ColumnAddressSet",
      default |-> <<0, 0, 0, 239>>,
      read    |-> [
          sc |-> [form |-> "be16", i |-> 0, j |-> 1],
          ec |-> [form |-> "be16", i |-> 2, j |-> 3]
      ],
      write   |-> [
          sc |-> [form |-> "be16", i |-> 0, j |-> 1],
          ec |-> [form |-> "be16", i |-> 2, j |-> 3]
      ] ]

\* mod page_address: struct PageAddressSet { data: [u8; 4] }
page_address ==
    [ struct  |-> "PageAddressSet",
      default |-> <<0, 0, 1, 63>>,
      read    |-> [
          sp |-> [form |-> "be16", i |-> 0, j |-> 1],
          ep |-> [form |-> "be16", i |-> 2, j |-> 3]
      ],
      write   |-> [
          sp |-> [form |-> "be16", i |-> 0, j |-> 1],
          ep |-> [form |-> "be16", i |-> 2, j |-> 3]
      ] ]

\* mod color: struct ColorSet { data: [u8; 128] }
color ==
    [ struct  |-> "ColorSet",
      default |-> <<0, 0, 0, 0, 0, 0, 0, 0, 0, 0, 0, 0, 0, 0, 0, 0, 0, 0, 0, 0, 0, 0, 0, 0, 0, 0, 0, 0, 0, 0, 0, 0, 0, 0, 0, 0, 0, 0, 0, 0, 0, 0, 0, 0, 0, 0, 0, 0, 0, 0, 0, 0, 0, 0, 0, 0, 0, 0, 0, 0, 0, 0, 0, 0, 0, 0, 0, 0, 0, 0, 0, 0, 0, 0, 0, 0, 0, 0, 0, 0, 0, 0, 0, 0, 0, 0, 0, 0, 0, 0, 0, 0, 0, 0, 0, 0, 0, 0, 0, 0, 0, 0, 0, 0, 0, 0, 0, 0, 0, 0, 0, 0, 0, 0, 0, 0, 0, 0, 0, 0, 0, 0, 0, 0, 0, 0, 0, 0>>,
      read    |-> [
          r |-> [form |-> "slice", a |-> 0, b |-> 32],
          g |-> [form |-> "slice", a |-> 32, b |-> 96],
          b |-> [form |-> "slice", a |-> 96, b |-> 128]
      ],
      write   |-> [
          r |-> [form |-> "slice", a |-> 0, b |-> 32, m |-> 63, s |-> 0],
          g |-> [form |-> "slice", a |-> 32, b |-> 96, m |-> 63, s |-> 0],
          b |-> [form |-> "slice", a |-> 96, b |-> 128, m |-> 63, s |-> 0]
      ] ]

\* mod partial_area: struct PartialArea { data: [u8; 4] }
partial_area ==
    [ struct  |-> "PartialArea",
      default |-> <<0, 0, 1, 63>>,
      read    |-> [
          sr |-> [form |-> "be16", i |-> 0, j |-> 1],
          er |-> [form |-> "be16", i |-> 2, j |-> 3]
      ],
      write   |-> [
          sr |-> [form |-> "be16", i |-> 0, j |-> 1],
          er |-> [form |-> "be16", i |-> 2, j |-> 3]
      ] ]

\* mod vertical_scrolling: struct VerticalScrollingDefinition { data: [u8; 6] }
vertical_scrolling ==
    [ struct  |-> "VerticalScrollingDefinition",
      default |-> <<0, 0, 1, 64, 0, 0>>,
      read    |-> [
          tfa |-> [form |-> "be16", i |-> 0, j |-> 1],
          vsa |-> [form |-> "be16", i |-> 2, j |-> 3],
          bfa |-> [form |-> "be16", i |-> 4, j |-> 5]
      ],
      write   |-> [
          tfa |-> [form |-> "be16", i |-> 0, j |-> 1],
          vsa |-> [form |-> "be16", i |-> 2, j |-> 3],
          bfa |-> [form |-> "be16", i |-> 4, j |-> 5]
      ] ]

\* mod tearing_effect_line_on: struct TearingEffectLineOn { data: [u8; 1] }
tearing_effect_line_on ==
    [ struct  |-> "TearingEffectLineOn",
      default |-> <<0>>,
      read    |-> [
          m |-> [form |-> "flag", of |-> [form |-> "bits", i |-> 0, s |-> 0, m |-> 1]]
      ],
      write   |-> [
          m |-> [form |-> "flag", i |-> 0, s |-> 0]
      ] ]

\* mod memory_access_control: struct MemoryAccessControl { data: [u8; 1] }
memory_access_control ==
    [ struct  |-> "MemoryAccessControl",
      default |-> <<0>>,
      read    |-> [
          row_address_order |-> [form |-> "flag", of |-> [form |-> "bits", i |-> 0, s |-> 7, m |-> 1]],
          column_address_order |-> [form |-> "flag", of |-> [form |-> "bits", i |-> 0, s |-> 6, m |-> 1]],
          row_column_exchange |-> [form |-> "flag", of |-> [form |-> "bits", i |-> 0, s |-> 5, m |-> 1]],
          vertical_refresh_order |-> [form |-> "flag", of |-> [form |-> "bits", i |-> 0, s |-> 4, m |-> 1]],
          rgb_bgr_order |-> [form |-> "flag", of |-> [form |-> "bits", i |-> 0, s |-> 3, m |-> 1]],
          horizontal_refresh_order |-> [form |-> "flag", of |-> [form |-> "bits", i |-> 0, s |-> 2, m |-> 1]]
      ],
      write   |-> [
          row_address_order |-> [form |-> "flag", i |-> 0, s |-> 7],
          column_address_order |-> [form |-> "flag", i |-> 0, s |-> 6],
          row_column_exchange |-> [form |-> "flag", i |-> 0, s |-> 5],
          vertical_refresh_order |-> [form |-> "flag", i |-> 0, s |-> 4],
          rgb_bgr_order |-> [form |-> "flag", i |-> 0, s |-> 3],
          horizontal_refresh_order |-> [form |-> "flag", i |-> 0, s |-> 2]
      ] ]

\* mod vertical_scrolling_start_address: struct VerticalScrollingStartAddress { data: [u8; 2] }
vertical_scrolling_start_address ==
    [ struct  |-> "VerticalScrollingStartAddress",
      default |-> <<0, 0>>,
      read    |-> [
          vsp |-> [form |-> "be16", i |-> 0, j |-> 1]
      ],
      write   |-> [
          vsp |-> [form |-> "be16", i |-> 0, j |-> 1]
      ] ]

\* mod pixel_format: struct PixelFormatSet { data: [u8; 1] }
pixel_format ==
    LET RgbInterfaceFormat ==
         <<
            <<"N16Bits", 5>>, <<"N18Bits", 6>>
         >>
        McuInterfaceFormat ==
         <<
            <<"N16Bits", 5>>, <<"N18Bits", 6>>
         >>
    IN
    [ struct  |-> "PixelFormatSet",
      default |-> <<102>>,
      read    |-> [
          rgb_interface_format |-> [form |-> "enum", enum |-> RgbInterfaceFormat, of |-> [form |-> "bits", i |-> 0, s |-> 4, m |-> 7]],
          mcu_interface_format |-> [form |-> "enum", enum |-> McuInterfaceFormat, of |-> [form |-> "bits", i |-> 0, s |-> 0, m |-> 7]]
      ],
      write   |-> [
          rgb_interface_format |-> [form |-> "enum", enum |-> RgbInterfaceFormat, of |-> [form |-> "bits", i |-> 0, s |-> 4, m |-> 7]],
          mcu_interface_format |-> [form |-> "enum", enum |-> McuInterfaceFormat, of |-> [form |-> "bits", i |-> 0, s |-> 0, m |-> 7]]
      ] ]

\* mod tear_scanline: struct SetTearScanline { data: [u8; 2] }
tear_scanline ==
    [ struct  |-> "SetTearScanline",
      default |-> <<0, 0>>,
      read    |-> [
          sts |-> [form |-> "be16m", i |-> 0, m |-> 1, j |-> 1]
      ],
      write   |-> [
          sts |-> [form |-> "be16m", i |-> 0, m |-> 1, j |-> 1]
      ] ]

\* mod get_scanline: struct GetScanline { data: [u8; 2] }
get_scanline ==
    [ struct  |-> "GetScanline",
      default |-> <<0, 0>>,
      read    |-> [
          gts |-> [form |-> "be16m", i |-> 0, m |-> 3, j |-> 1]
      ],
      write   |-> [
          gts |-> [form |-> "be16m", i |-> 0, m |-> 3, j |-> 1]
      ] ]

\* mod write_display_brightness: struct DisplayBrightness { data: [u8; 1] }
write_display_brightness ==
    [ struct  |-> "DisplayBrightness",
      default |-> <<0>>,
      read    |-> [
          dbv |-> [form |-> "byte", i |-> 0]
      ],
      write   |-> [
          dbv |-> [form |-> "byte", i |-> 0]
      ] ]

\* mod read_display_brightness: struct DisplayBrightness { data: [u8; 1] }
read_display_brightness ==
    [ struct  |-> "DisplayBrightness",
      default |-> <<0>>,
      read    |-> [
          dbv |-> [form |-> "byte", i |-> 0]
      ],
      write   |-> [
          dbv |-> [form |-> "byte", i |-> 0]
      ] ]

\* mod write_ctrl_display: struct CtrlDisplay { data: [u8; 1] }
write_ctrl_display ==
    [ struct  |-> "CtrlDisplay",
      default |-> <<0>>,
      read    |-> [
          brightness_control_block |-> [form |-> "flag", of |-> [form |-> "bits", i |-> 0, s |-> 5, m |-> 1]],
          display_dimming |-> [form |-> "flag", of |-> [form |-> "bits", i |-> 0, s |-> 3, m |-> 1]],
          backlight_control |-> [form |-> "flag", of |-> [form |-> "bits", i |-> 0, s |-> 2, m |-> 1]]
      ],
      write   |-> [
          brightness_control_block |-> [form |-> "flag", i |-> 0, s |-> 5],
          display_dimming |-> [form |-> "flag", i |-> 0, s |-> 3],
          backlight_control |-> [form |-> "flag", i |-> 0, s |-> 2]
      ] ]

\* mod read_ctrl_display: struct CtrlDisplay { data: [u8; 1] }
read_ctrl_display ==
    [ struct  |-> "CtrlDisplay",
      default |-> <<0>>,
      read    |-> [
          brightness_control_block |-> [form |-> "flag", of |-> [form |-> "bits", i |-> 0, s |-> 5, m |-> 1]],
          display_dimming |-> [form |-> "flag", of |-> [form |-> "bits", i |-> 0, s |-> 3, m |-> 1]],
          backlight |-> [form |-> "flag", of |-> [form |-> "bits", i |-> 0, s |-> 2, m |-> 1]]
      ],
      write   |-> [
          brightness_control_block |-> [form |-> "flag", i |-> 0, s |-> 5],
          display_dimming |-> [form |-> "flag", i |-> 0, s |-> 3],
          backlight |-> [form |-> "flag", i |-> 0, s |-> 2]
      ] ]

\* mod write_content_adaptive_brightness_control: struct ContentAdaptiveBrightnessControl { data: [u8; 1] }
write_content_adaptive_brightness_control ==
    LET AdaptiveBrightnessControlMode ==
         <<
            <<"Off", 0>>, <<"UserInterfaceImage", 1>>, <<"StillPicture", 2>>, <<"MovingImage", 3>>
         >>
    IN
    [ struct  |-> "ContentAdaptiveBrightnessControl",
      default |-> <<0>>,
      read    |-> [
          adaptive_brightness_control_mode |-> [form |-> "enum", enum |-> AdaptiveBrightnessControlMode, of |-> [form |-> "bits", i |-> 0, s |-> 0, m |-> 3]]
      ],
      write   |-> [
          adaptive_brightness_control_mode |-> [form |-> "enum", enum |-> AdaptiveBrightnessControlMode, of |-> [form |-> "bits", i |-> 0, s |-> 0, m |-> 3]]
      ] ]

\* mod read_content_adaptive_brightness_control: struct ContentAdaptiveBrightnessControl { data: [u8; 1] }
read_content_adaptive_brightness_control ==
    LET AdaptiveBrightnessControlMode ==
         <<
            <<"Off", 0>>, <<"UserInterfaceImage", 1>>, <<"StillPicture", 2>>, <<"MovingImage", 3>>
         >>
    IN
    [ struct  |-> "ContentAdaptiveBrightnessControl",
      default |-> <<0>>,
      read    |-> [
          adaptive_brightness_control_mode |-> [form |-> "enum", enum |-> AdaptiveBrightnessControlMode, of |-> [form |-> "bits", i |-> 0, s |-> 0, m |-> 3]]
      ],
      write   |-> [
          adaptive_brightness_control_mode |-> [form |-> "enum", enum |-> AdaptiveBrightnessControlMode, of |-> [form |-> "bits", i |-> 0, s |-> 0, m |-> 3]]
      ] ]

\* mod write_cabc_minimum_brightness: struct CabcMinimumBrightness { data: [u8; 1] }
write_cabc_minimum_brightness ==
    [ struct  |-> "CabcMinimumBrightness",
      default |-> <<0>>,
      read    |-> [
          cabc_minimum_brightness |-> [form |-> "byte", i |-> 0]
      ],
      write   |-> [
          cabc_minimum_brightness |-> [form |-> "byte", i |-> 0]
      ] ]

\* mod read_cabc_minimum_brightness: struct CabcMinimumBrightness { data: [u8; 1] }
read_cabc_minimum_brightness ==
    [ struct  |-> "CabcMinimumBrightness",
      default |-> <<0>>,
      read    |-> [
          cabc_minimum_brightness |-> [form |-> "byte", i |-> 0]
      ],
      write   |-> [
          cabc_minimum_brightness |-> [form |-> "byte", i |-> 0]
      ] ]

\* mod read_id1: struct Id1 { data: [u8; 1] }
read_id1 ==
    [ struct  |-> "Id1",
      default |-> <<0>>,
      read    |-> [
          id1 |-> [form |-> "byte", i |-> 0]
      ],
      write   |-> [
          id1 |-> [form |-> "byte", i |-> 0]
      ] ]

\* mod read_id2: struct Id2 { data: [u8; 1] }
read_id2 ==
    [ struct  |-> "Id2",
      default |-> <<128>>,
      read    |-> [
          id2 |-> [form |-> "bits", i |-> 0, s |-> 0, m |-> 127]
      ],
      write   |-> [
          id2 |-> [form |-> "bits", i |-> 0, s |-> 0, m |-> 127]
      ] ]

\* mod read_id3: struct Id3 { data: [u8; 1] }
read_id3 ==
    [ struct  |-> "Id3",
      default |-> <<0>>,
      read    |-> [
          id3 |-> [form |-> "byte", i |-> 0]
      ],
      write   |-> [
          id3 |-> [form |-> "byte", i |-> 0]
      ] ]

\* mod rgb_interface_signal_control: struct RgbInterfaceSignalControl { data: [u8; 1] }
rgb_interface_signal_control ==
    LET DisplayDataPath ==
         <<
            <<"DirectToShiftRegisterDefault", 0>>, <<"Memory", 1>>
         >>
    IN
    [ struct  |-> "RgbInterfaceSignalControl",
      default |-> <<65>>,
      read    |-> [
          display_data_path |-> [form |-> "enum", enum |-> DisplayDataPath, of |-> [form |-> "bits", i |-> 0, s |-> 7, m |-> 1]],
          rgb_interface_selection |-> [form |-> "bits", i |-> 0, s |-> 5, m |-> 3],
          vsync_polarity |-> [form |-> "flag", of |-> [form |-> "bits", i |-> 0, s |-> 3, m |-> 1]],
          hsync_polarity |-> [form |-> "flag", of |-> [form |-> "bits", i |-> 0, s |-> 2, m |-> 1]],
          dotclk_polarity |-> [form |-> "flag", of |-> [form |-> "bits", i |-> 0, s |-> 1, m |-> 1]],
          de_polarity |-> [form |-> "flag", of |-> [form |-> "bits", i |-> 0, s |-> 0, m |-> 1]]
      ],
      write   |-> [
          display_data_path |-> [form |-> "enum", enum |-> DisplayDataPath, of |-> [form |-> "bits", i |-> 0, s |-> 7, m |-> 1]],
          rgb_interface_selection |-> [form |-> "bits", i |-> 0, s |-> 5, m |-> 3],
          vsync_polarity |-> [form |-> "flag", i |-> 0, s |-> 3],
          hsync_polarity |-> [form |-> "flag", i |-> 0, s |-> 2],
          dotclk_polarity |-> [form |-> "flag", i |-> 0, s |-> 1],
          de_polarity |-> [form |-> "flag", i |-> 0, s |-> 0]
      ] ]

\* mod frame_control_in_normal_mode: struct FrameControlInNormalMode { data: [u8; 2] }
frame_control_in_normal_mode ==
    LET DivisionRatio ==
         <<
            <<"Fosc", 0>>, <<"FoscDiv2", 1>>, <<"FoscDiv4", 2>>, <<"FoscDiv8", 3>>
         >>
    IN
    [ struct  |-> "FrameControlInNormalMode",
      default |-> <<0, 27>>,
      read    |-> [
          division_ratio |-> [form |-> "enum", enum |-> DivisionRatio, of |-> [form |-> "bits", i |-> 0, s |-> 0, m |-> 3]],
          clock_per_line |-> [form |-> "biased", i |-> 1, m |-> 31, sub |-> 16, add |-> 16]
      ],
      write   |-> [
          division_ratio |-> [form |-> "enum", enum |-> DivisionRatio, of |-> [form |-> "bits", i |-> 0, s |-> 0, m |-> 3]],
          clock_per_line |-> [form |-> "biased", sub |-> 16, add |-> 16, i |-> 1, m |-> 31]
      ] ]

\* mod frame_control_in_idle_mode: struct FrameControlInIdleMode { data: [u8; 2] }
frame_control_in_idle_mode ==
    LET DivisionRatio ==
         <<
            <<"Fosc", 0>>, <<"FoscDiv2", 1>>, <<"FoscDiv4", 2>>, <<"FoscDiv8", 3>>
         >>
    IN
    [ struct  |-> "FrameControlInIdleMode",
      default |-> <<0, 27>>,
      read    |-> [
          division_ratio |-> [form |-> "enum", enum |-> DivisionRatio, of |-> [form |-> "bits", i |-> 0, s |-> 0, m |-> 3]],
          clock_per_line |-> [form |-> "biased", i |-> 1, m |-> 31, sub |-> 16, add |-> 16]
      ],
      write   |-> [
          division_ratio |-> [form |-> "enum", enum |-> DivisionRatio, of |-> [form |-> "bits", i |-> 0, s |-> 0, m |-> 3]],
          clock_per_line |-> [form |-> "biased", sub |-> 16, add |-> 16, i |-> 1, m |-> 31]
      ] ]

\* mod frame_control_in_partial_mode: struct FrameControlInPartialMode { data: [u8; 2] }
frame_control_in_partial_mode ==
    LET DivisionRatio ==
         <<
            <<"Fosc", 0>>, <<"FoscDiv2", 1>>, <<"FoscDiv4", 2>>, <<"FoscDiv8", 3>>
         >>
    IN
    [ struct  |-> "FrameControlInPartialMode",
      default |-> <<0, 27>>,
      read    |-> [
          division_ratio |-> [form |-> "enum", enum |-> DivisionRatio, of |-> [form |-> "bits", i |-> 0, s |-> 0, m |-> 3]],
          clock_per_line |-> [form |-> "biased", i |-> 1, m |-> 31, sub |-> 16, add |-> 16]
      ],
      write   |-> [
          division_ratio |-> [form |-> "enum", enum |-> DivisionRatio, of |-> [form |-> "bits", i |-> 0, s |-> 0, m |-> 3]],
          clock_per_line |-> [form |-> "biased", sub |-> 16, add |-> 16, i |-> 1, m |-> 31]
      ] ]

\* mod display_inversion_control: struct DisplayInversionControl { data: [u8; 1] }
display_inversion_control ==
    LET InversionSettingInFullColorsNormalMode ==
         <<
            <<"LineInversion", 0>>, <<"FrameInversion", 1>>
         >>
        InversionSettingInIdleMode ==
         <<
            <<"LineInversion", 0>>, <<"FrameInversion", 1>>
         >>
        InversionSettingInFullColorsPartialMode ==
         <<
            <<"LineInversion", 0>>, <<"FrameInversion", 1>>
         >>
    IN
    [ struct  |-> "DisplayInversionControl",
      default |-> <<2>>,
      read    |-> [
          inversion_setting_in_full_colors_normal_mode |-> [form |-> "enum", enum |-> InversionSettingInFullColorsNormalMode, of |-> [form |-> "bits", i |-> 0, s |-> 2, m |-> 1]],
          inversion_setting_in_idle_mode |-> [form |-> "enum", enum |-> InversionSettingInIdleMode, of |-> [form |-> "bits", i |-> 0, s |-> 1, m |-> 1]],
          inversion_setting_in_full_colors_partial_mode |-> [form |-> "enum", enum |-> InversionSettingInFullColorsPartialMode, of |-> [form |-> "bits", i |-> 0, s |-> 0, m |-> 1]]
      ],
      write   |-> [
          inversion_setting_in_full_colors_normal_mode |-> [form |-> "enum", enum |-> InversionSettingInFullColorsNormalMode, of |-> [form |-> "bits", i |-> 0, s |-> 2, m |-> 1]],
          inversion_setting_in_idle_mode |-> [form |-> "enum", enum |-> InversionSettingInIdleMode, of |-> [form |-> "bits", i |-> 0, s |-> 1, m |-> 1]],
          inversion_setting_in_full_colors_partial_mode |-> [form |-> "enum", enum |-> InversionSettingInFullColorsPartialMode, of |-> [form |-> "bits", i |-> 0, s |-> 0, m |-> 1]]
      ] ]

\* mod blanking_porch_control: struct BlankingPorchControl { data: [u8; 4] }
blanking_porch_control ==
    [ struct  |-> "BlankingPorchControl",
      default |-> <<2, 2, 10, 20>>,
      read    |-> [
          vfp |-> [form |-> "biased", i |-> 0, m |-> 127, sub |-> 2, add |-> 2],
          vbp |-> [form |-> "biased", i |-> 1, m |-> 127, sub |-> 2, add |-> 2],
          hfp |-> [form |-> "biased", i |-> 2, m |-> 31, sub |-> 2, add |-> 2],
          hbp |-> [form |-> "biased", i |-> 3, m |-> 31, sub |-> 2, add |-> 2]
      ],
      write   |-> [
          vfp |-> [form |-> "biased", sub |-> 2, add |-> 2, i |-> 0, m |-> 127],
          vbp |-> [form |-> "biased", sub |-> 2, add |-> 2, i |-> 1, m |-> 127],
          hfp |-> [form |-> "biased", sub |-> 2, add |-> 2, i |-> 2, m |-> 31],
          hbp |-> [form |-> "biased", sub |-> 2, add |-> 2, i |-> 3, m |-> 31]
      ] ]

\* mod display_function_control: struct DisplayFunctionControl { data: [u8; 4] }
display_function_control ==
    LET GateOutputsInNonDisplayArea ==
         <<
            <<"NormalScan", 0>>, <<"IntervalScan", 2>>
         >>
        LiquidCrystalType ==
         <<
            <<"NormallyBlack", 0>>, <<"NormallyWhite", 1>>
         >>
        GateOutputScanDirection ==
         <<
            <<"G1Cid4G320", 0>>, <<"G320Cid4G1", 1>>
         >>
        SourceOutputScanDirection ==
         <<
            <<"S1Cid4S720", 0>>, <<"S720Cid4S1", 1>>
         >>
        ScanCycle ==
         <<
            <<"N1Frame", 0>>, <<"N3Frames", 1>>, <<"N5Frames", 2>>, <<"N7Frames", 3>>, <<"N9Frames",
            4>>, <<"N11Frames", 5>>, <<"N13Frames", 6>>, <<"N15Frames", 7>>, <<"N17Frames", 8>>,
            <<"N19Frames", 9>>, <<"N21Frames", 10>>, <<"N23Frames", 11>>, <<"N25Frames", 12>>,
            <<"N27Frames", 13>>, <<"N29Frames", 14>>, <<"N31Frames", 15>>
         >>
        LcdDriverLine ==
         <<
            <<"N16Lines", 1>>, <<"N24Lines", 2>>, <<"N32Lines", 3>>, <<"N40Lines", 4>>,
            <<"N48Lines", 5>>, <<"N56Lines", 6>>, <<"N64Lines", 7>>, <<"N72Lines", 8>>,
            <<"N80Lines", 9>>, <<"N88Lines", 10>>, <<"N96Lines", 11>>, <<"N104Lines", 12>>,
            <<"N112Lines", 13>>, <<"N120Lines", 14>>, <<"N128Lines", 15>>, <<"N136Lines", 16>>,
            <<"N144Lines", 17>>, <<"N152Lines", 18>>, <<"N160Lines", 19>>, <<"N168Lines", 20>>,
            <<"N176Lines", 21>>, <<"N184Lines", 22>>, <<"N192Lines", 23>>, <<"N200Lines", 24>>,
            <<"N208Lines", 25>>, <<"N216Lines", 26>>, <<"N224Lines", 27>>, <<"N232Lines", 28>>,
            <<"N240Lines", 29>>, <<"N248Lines", 30>>, <<"N256Lines", 31>>, <<"N264Lines", 32>>,
            <<"N272Lines", 33>>, <<"N280Lines", 34>>, <<"N288Lines", 35>>, <<"N296Lines", 36>>,
            <<"N304Lines", 37>>, <<"N312Lines", 38>>, <<"N320Lines", 39>>
         >>
    IN
    [ struct  |-> "DisplayFunctionControl",
      default |-> <<10, 130, 39, 0>>,
      read    |-> [
          gate_outputs_in_non_display_area |-> [form |-> "enum", enum |-> GateOutputsInNonDisplayArea, of |-> [form |-> "bits", i |-> 0, s |-> 2, m |-> 3]],
          determine_source_and_vcom_output_in_an_on_display_area_in_the_partial_display_mode |-> [form |-> "bits", i |-> 0, s |-> 0, m |-> 3],
          liquid_crystal_type |-> [form |-> "enum", enum |-> LiquidCrystalType, of |-> [form |-> "bits", i |-> 1, s |-> 7, m |-> 1]],
          gate_output_scan_direction |-> [form |-> "enum", enum |-> GateOutputScanDirection, of |-> [form |-> "bits", i |-> 1, s |-> 6, m |-> 1]],
          source_output_scan_direction |-> [form |-> "enum", enum |-> SourceOutputScanDirection, of |-> [form |-> "bits", i |-> 1, s |-> 5, m |-> 1]],
          sm |-> [form |-> "flag", of |-> [form |-> "bits", i |-> 1, s |-> 4, m |-> 1]],
          scan_cycle |-> [form |-> "enum", enum |-> ScanCycle, of |-> [form |-> "bits", i |-> 1, s |-> 0, m |-> 15]],
          lcd_driver_line |-> [form |-> "enum", enum |-> LcdDriverLine, of |-> [form |-> "bits", i |-> 2, s |-> 0, m |-> 63]],
          pcdiv |-> [form |-> "bits", i |-> 3, s |-> 0, m |-> 63]
      ],
      write   |-> [
          gate_outputs_in_non_display_area |-> [form |-> "enum", enum |-> GateOutputsInNonDisplayArea, of |-> [form |-> "bits", i |-> 0, s |-> 2, m |-> 3]],
          determine_source_and_vcom_output_in_an_on_display_area_in_the_partial_display_mode |-> [form |-> "bits", i |-> 0, s |-> 0, m |-> 3],
          liquid_crystal_type |-> [form |-> "enum", enum |-> LiquidCrystalType, of |-> [form |-> "bits", i |-> 1, s |-> 7, m |-> 1]],
          gate_output_scan_direction |-> [form |-> "enum", enum |-> GateOutputScanDirection, of |-> [form |-> "bits", i |-> 1, s |-> 6, m |-> 1]],
          source_output_scan_direction |-> [form |-> "enum", enum |-> SourceOutputScanDirection, of |-> [form |-> "bits", i |-> 1, s |-> 5, m |-> 1]],
          sm |-> [form |-> "flag", i |-> 1, s |-> 4],
          scan_cycle |-> [form |-> "enum", enum |-> ScanCycle, of |-> [form |-> "bits", i |-> 1, s |-> 0, m |-> 15]],
          lcd_driver_line |-> [form |-> "enum", enum |-> LcdDriverLine, of |-> [form |-> "bits", i |-> 2, s |-> 0, m |-> 63]],
          pcdiv |-> [form |-> "bits", i |-> 3, s |-> 0, m |-> 63]
      ] ]

\* mod entry_mode: struct EntryModeSet { data: [u8; 1] }
entry_mode ==
    LET G1G320GateOutput ==
         <<
            <<"Vgh", 1>>, <<"Vgl", 2>>, <<"NormalDisplay", 3>>
         >>
        LowVoltageDetection ==
         <<
            <<"Enable", 0>>, <<"Disable", 1>>
         >>
    IN
    [ struct  |-> "EntryModeSet",
      default |-> <<6>>,
      read    |-> [
          deep_standby_mode |-> [form |-> "flag", of |-> [form |-> "bits", i |-> 0, s |-> 3, m |-> 1]],
          g1_g320_gate_output |-> [form |-> "enum", enum |-> G1G320GateOutput, of |-> [form |-> "bits", i |-> 0, s |-> 1, m |-> 3]],
          low_voltage_detection |-> [form |-> "enum", enum |-> LowVoltageDetection, of |-> [form |-> "bits", i |-> 0, s |-> 0, m |-> 1]]
      ],
      write   |-> [
          deep_standby_mode |-> [form |-> "flag", i |-> 0, s |-> 3],
          g1_g320_gate_output |-> [form |-> "enum", enum |-> G1G320GateOutput, of |-> [form |-> "bits", i |-> 0, s |-> 1, m |-> 3]],
          low_voltage_detection |-> [form |-> "enum", enum |-> LowVoltageDetection, of |-> [form |-> "bits", i |-> 0, s |-> 0, m |-> 1]]
      ] ]

\* mod backlight_control1: struct BacklightControl1 { data: [u8; 1] }
backlight_control1 ==
    LET HistogramThresholdInUserInterfaceMode ==
         <<
            <<"N99", 0>>, <<"N98", 1>>, <<"N96", 2>>, <<"N94", 3>>, <<"N92", 4>>, <<"N90", 5>>,
            <<"N88", 6>>, <<"N86", 7>>, <<"N84", 8>>, <<"N82", 9>>, <<"N80", 10>>, <<"N78", 11>>,
            <<"N76", 12>>, <<"N74", 13>>, <<"N72", 14>>, <<"N70", 15>>
         >>
    IN
    [ struct  |-> "BacklightControl1",
      default |-> <<6>>,
      read    |-> [
          histogram_threshold_in_user_interface_mode |-> [form |-> "enum", enum |-> HistogramThresholdInUserInterfaceMode, of |-> [form |-> "bits", i |-> 0, s |-> 0, m |-> 15]]
      ],
      write   |-> [
          histogram_threshold_in_user_interface_mode |-> [form |-> "enum", enum |-> HistogramThresholdInUserInterfaceMode, of |-> [form |-> "bits", i |-> 0, s |-> 0, m |-> 15]]
      ] ]

\* mod backlight_control2: struct BacklightControl2 { data: [u8; 1] }
backlight_control2 ==
    LET HistogramThresholdInMovingImageMode ==
         <<
            <<"N99", 0>>, <<"N98", 1>>, <<"N96", 2>>, <<"N94", 3>>, <<"N92", 4>>, <<"N90", 5>>,
            <<"N88", 6>>, <<"N86", 7>>, <<"N84", 8>>, <<"N82", 9>>, <<"N80", 10>>, <<"N78", 11>>,
            <<"N76", 12>>, <<"N74", 13>>, <<"N72", 14>>, <<"N70", 15>>
         >>
        HistogramThresholdInStillPictureMode ==
         <<
            <<"N99", 0>>, <<"N98", 1>>, <<"N96", 2>>, <<"N94", 3>>, <<"N92", 4>>, <<"N90", 5>>,
            <<"N88", 6>>, <<"N86", 7>>, <<"N84", 8>>, <<"N82", 9>>, <<"N80", 10>>, <<"N78", 11>>,
            <<"N76", 12>>, <<"N74", 13>>, <<"N72", 14>>, <<"N70", 15>>
         >>
    IN
    [ struct  |-> "BacklightControl2",
      default |-> <<204>>,
      read    |-> [
          histogram_threshold_in_moving_image_mode |-> [form |-> "enum", enum |-> HistogramThresholdInMovingImageMode, of |-> [form |-> "bits", i |-> 0, s |-> 4, m |-> 15]],
          histogram_threshold_in_still_picture_mode |-> [form |-> "enum", enum |-> HistogramThresholdInStillPictureMode, of |-> [form |-> "bits", i |-> 0, s |-> 0, m |-> 15]]
      ],
      write   |-> [
          histogram_threshold_in_moving_image_mode |-> [form |-> "enum", enum |-> HistogramThresholdInMovingImageMode, of |-> [form |-> "bits", i |-> 0, s |-> 4, m |-> 15]],
          histogram_threshold_in_still_picture_mode |-> [form |-> "enum", enum |-> HistogramThresholdInStillPictureMode, of |-> [form |-> "bits", i |-> 0, s |-> 0, m |-> 15]]
      ] ]

\* mod backlight_control3: struct BacklightControl3 { data: [u8; 1] }
backlight_control3 ==
    LET PixelThresholdInUserInterfaceMode ==
         <<
            <<"N252", 0>>, <<"N248", 1>>, <<"N244", 2>>, <<"N240", 3>>, <<"N236", 4>>, <<"N232",
            5>>, <<"N228", 6>>, <<"N224", 7>>, <<"N220", 8>>, <<"N216", 9>>, <<"N212", 10>>,
            <<"N208", 11>>, <<"N204", 12>>, <<"N200", 13>>, <<"N196", 14>>, <<"N192", 15>>
         >>
    IN
    [ struct  |-> "BacklightControl3",
      default |-> <<4>>,
      read    |-> [
          pixel_threshold_in_user_interface_mode |-> [form |-> "enum", enum |-> PixelThresholdInUserInterfaceMode, of |-> [form |-> "bits", i |-> 0, s |-> 0, m |-> 15]]
      ],
      write   |-> [
          pixel_threshold_in_user_interface_mode |-> [form |-> "enum", enum |-> PixelThresholdInUserInterfaceMode, of |-> [form |-> "bits", i |-> 0, s |-> 0, m |-> 15]]
      ] ]

\* mod backlight_control4: struct BacklightControl4 { data: [u8; 1] }
backlight_control4 ==
    LET PixelThresholdInMovingImageMode ==
         <<
            <<"N224", 0>>, <<"N220", 1>>, <<"N216", 2>>, <<"N212", 3>>, <<"N208", 4>>, <<"N204",
            5>>, <<"N200", 6>>, <<"N196", 7>>, <<"N192", 8>>, <<"N188", 9>>, <<"N184", 10>>,
            <<"N180", 11>>, <<"N176", 12>>, <<"N172", 13>>, <<"N168", 14>>, <<"N164", 15>>
         >>
        PixelThresholdInStillPictureMode ==
         <<
            <<"N224", 0>>, <<"N220", 1>>, <<"N216", 2>>, <<"N212", 3>>, <<"N208", 4>>, <<"N204",
            5>>, <<"N200", 6>>, <<"N196", 7>>, <<"N192", 8>>, <<"N188", 9>>, <<"N184", 10>>,
            <<"N180", 11>>, <<"N176", 12>>, <<"N172", 13>>, <<"N168", 14>>, <<"N164", 15>>
         >>
    IN
    [ struct  |-> "BacklightControl4",
      default |-> <<101>>,
      read    |-> [
          pixel_threshold_in_moving_image_mode |-> [form |-> "enum", enum |-> PixelThresholdInMovingImageMode, of |-> [form |-> "bits", i |-> 0, s |-> 4, m |-> 15]],
          pixel_threshold_in_still_picture_mode |-> [form |-> "enum", enum |-> PixelThresholdInStillPictureMode, of |-> [form |-> "bits", i |-> 0, s |-> 0, m |-> 15]]
      ],
      write   |-> [
          pixel_threshold_in_moving_image_mode |-> [form |-> "enum", enum |-> PixelThresholdInMovingImageMode, of |-> [form |-> "bits", i |-> 0, s |-> 4, m |-> 15]],
          pixel_threshold_in_still_picture_mode |-> [form |-> "enum", enum |-> PixelThresholdInStillPictureMode, of |-> [form |-> "bits", i |-> 0, s |-> 0, m |-> 15]]
      ] ]

\* mod backlight_control5: struct BacklightControl5 { data: [u8; 1] }
backlight_control5 ==
    LET TransitionTime ==
         <<
            <<"N1Frame", 1>>, <<"N2Frames", 2>>, <<"N4Frames", 3>>, <<"N8Frames", 4>>,
            <<"N16Frames", 5>>, <<"N32Frames", 6>>, <<"N64Frames", 7>>
         >>
    IN
    [ struct  |-> "BacklightControl5",
      default |-> <<68>>,
      read    |-> [
          brightness_change_threshold |-> [form |-> "bits", i |-> 0, s |-> 4, m |-> 15],
          transition_time |-> [form |-> "enum", enum |-> TransitionTime, of |-> [form |-> "bits", i |-> 0, s |-> 0, m |-> 7]]
      ],
      write   |-> [
          brightness_change_threshold |-> [form |-> "bits", i |-> 0, s |-> 4, m |-> 15],
          transition_time |-> [form |-> "enum", enum |-> TransitionTime, of |-> [form |-> "bits", i |-> 0, s |-> 0, m |-> 7]]
      ] ]

\* mod backlight_control7: struct BacklightControl7 { data: [u8; 1] }
backlight_control7 ==
    LET FpWmOut ==
         <<
            <<"Pwm62745Hz", 0>>, <<"Pwm31373Hz", 1>>, <<"Pwm20915Hz", 2>>, <<"Pwm15686Hz", 3>>,
            <<"Pwm12549Hz", 4>>, <<"Pwm10458Hz", 5>>, <<"Pwm8964Hz", 6>>, <<"Pwm7843Hz", 7>>,
            <<"Pwm6972Hz", 8>>, <<"Pwm6275Hz", 9>>, <<"Pwm5704Hz", 10>>, <<"Pwm5229Hz", 11>>,
            <<"Pwm4827Hz", 12>>, <<"Pwm4482Hz", 13>>, <<"Pwm4183Hz", 14>>, <<"Pwm3922Hz", 15>>,
            <<"Pwm3691Hz", 16>>, <<"Pwm3486Hz", 17>>, <<"Pwm3302Hz", 18>>, <<"Pwm3137Hz", 19>>,
            <<"Pwm2988Hz", 20>>, <<"Pwm2852Hz", 21>>, <<"Pwm2728Hz", 22>>, <<"Pwm2614Hz", 23>>,
            <<"Pwm2510Hz", 24>>, <<"Pwm2413Hz", 25>>, <<"Pwm2324Hz", 26>>, <<"Pwm2241Hz", 27>>,
            <<"Pwm2164Hz", 28>>, <<"Pwm2092Hz", 29>>, <<"Pwm2024Hz", 30>>, <<"Pwm1961Hz", 31>>,
            <<"Pwm1901Hz", 32>>, <<"Pwm1845Hz", 33>>, <<"Pwm1793Hz", 34>>, <<"Pwm1743Hz", 35>>,
            <<"Pwm1696Hz", 36>>, <<"Pwm1651Hz", 37>>, <<"Pwm1609Hz", 38>>, <<"Pwm1569Hz", 39>>,
            <<"Pwm1530Hz", 40>>, <<"Pwm1494Hz", 41>>, <<"Pwm1459Hz", 42>>, <<"Pwm1426Hz", 43>>,
            <<"Pwm1394Hz", 44>>, <<"Pwm1364Hz", 45>>, <<"Pwm1335Hz", 46>>, <<"Pwm1307Hz", 47>>,
            <<"Pwm1281Hz", 48>>, <<"Pwm1255Hz", 49>>, <<"Pwm1230Hz", 50>>, <<"Pwm1207Hz", 51>>,
            <<"Pwm1184Hz", 52>>, <<"Pwm1162Hz", 53>>, <<"Pwm1141Hz", 54>>, <<"Pwm1120Hz", 55>>,
            <<"Pwm1101Hz", 56>>, <<"Pwm1082Hz", 57>>, <<"Pwm1063Hz", 58>>, <<"Pwm1046Hz", 59>>,
            <<"Pwm1029Hz", 60>>, <<"Pwm1012Hz", 61>>, <<"Pwm996Hz", 62>>, <<"Pwm980Hz", 63>>,
            <<"Pwm965Hz", 64>>, <<"Pwm951Hz", 65>>, <<"Pwm936Hz", 66>>, <<"Pwm923Hz", 67>>,
            <<"Pwm909Hz", 68>>, <<"Pwm896Hz", 69>>, <<"Pwm884Hz", 70>>, <<"Pwm871Hz", 71>>,
            <<"Pwm860Hz", 72>>, <<"Pwm848Hz", 73>>, <<"Pwm837Hz", 74>>, <<"Pwm826Hz", 75>>,
            <<"Pwm815Hz", 76>>, <<"Pwm804Hz", 77>>, <<"Pwm794Hz", 78>>, <<"Pwm784Hz", 79>>,
            <<"Pwm775Hz", 80>>, <<"Pwm765Hz", 81>>, <<"Pwm756Hz", 82>>, <<"Pwm747Hz", 83>>,
            <<"Pwm738Hz", 84>>, <<"Pwm730Hz", 85>>, <<"Pwm721Hz", 86>>, <<"Pwm713Hz", 87>>,
            <<"Pwm705Hz", 88>>, <<"Pwm697Hz", 89>>, <<"Pwm690Hz", 90>>, <<"Pwm682Hz", 91>>,
            <<"Pwm675Hz", 92>>, <<"Pwm668Hz", 93>>, <<"Pwm660Hz", 94>>, <<"Pwm654Hz", 95>>,
            <<"Pwm647Hz", 96>>, <<"Pwm640Hz", 97>>, <<"Pwm634Hz", 98>>, <<"Pwm627Hz", 99>>,
            <<"Pwm621Hz", 100>>, <<"Pwm615Hz", 101>>, <<"Pwm609Hz", 102>>, <<"Pwm603Hz", 103>>,
            <<"Pwm598Hz", 104>>, <<"Pwm592Hz", 105>>, <<"Pwm586Hz", 106>>, <<"Pwm581Hz", 107>>,
            <<"Pwm576Hz", 108>>, <<"Pwm570Hz", 109>>, <<"Pwm565Hz", 110>>, <<"Pwm560Hz", 111>>,
            <<"Pwm555Hz", 112>>, <<"Pwm550Hz", 113>>, <<"Pwm546Hz", 114>>, <<"Pwm541Hz", 115>>,
            <<"Pwm536Hz", 116>>, <<"Pwm532Hz", 117>>, <<"Pwm527Hz", 118>>, <<"Pwm523Hz", 119>>,
            <<"Pwm519Hz", 120>>, <<"Pwm514Hz", 121>>, <<"Pwm510Hz", 122>>, <<"Pwm506Hz", 123>>,
            <<"Pwm502Hz", 124>>, <<"Pwm498Hz", 125>>, <<"Pwm494Hz", 126>>, <<"Pwm490Hz", 127>>,
            <<"Pwm486Hz", 128>>, <<"Pwm483Hz", 129>>, <<"Pwm479Hz", 130>>, <<"Pwm475Hz", 131>>,
            <<"Pwm472Hz", 132>>, <<"Pwm468Hz", 133>>, <<"Pwm465Hz", 134>>, <<"Pwm461Hz", 135>>,
            <<"Pwm458Hz", 136>>, <<"Pwm455Hz", 137>>, <<"Pwm451Hz", 138>>, <<"Pwm448Hz", 139>>,
            <<"Pwm445Hz", 140>>, <<"Pwm442Hz", 141>>, <<"Pwm439Hz", 142>>, <<"Pwm436Hz", 143>>,
            <<"Pwm433Hz", 144>>, <<"Pwm430Hz", 145>>, <<"Pwm427Hz", 146>>, <<"Pwm424Hz", 147>>,
            <<"Pwm421Hz", 148>>, <<"Pwm418Hz", 149>>, <<"Pwm416Hz", 150>>, <<"Pwm413Hz", 151>>,
            <<"Pwm410Hz", 152>>, <<"Pwm407Hz", 153>>, <<"Pwm405Hz", 154>>, <<"Pwm402Hz", 155>>,
            <<"Pwm400Hz", 156>>, <<"Pwm397Hz", 157>>, <<"Pwm395Hz", 158>>, <<"Pwm392Hz", 159>>,
            <<"Pwm390Hz", 160>>, <<"Pwm387Hz", 161>>, <<"Pwm385Hz", 162>>, <<"Pwm383Hz", 163>>,
            <<"Pwm380Hz", 164>>, <<"Pwm378Hz", 165>>, <<"Pwm376Hz", 166>>, <<"Pwm373Hz", 167>>,
            <<"Pwm371Hz", 168>>, <<"Pwm369Hz", 169>>, <<"Pwm367Hz", 170>>, <<"Pwm365Hz", 171>>,
            <<"Pwm363Hz", 172>>, <<"Pwm361Hz", 173>>, <<"Pwm359Hz", 174>>, <<"Pwm357Hz", 175>>,
            <<"Pwm354Hz", 176>>, <<"Pwm353Hz", 177>>, <<"Pwm351Hz", 178>>, <<"Pwm349Hz", 179>>,
            <<"Pwm347Hz", 180>>, <<"Pwm345Hz", 181>>, <<"Pwm343Hz", 182>>, <<"Pwm341Hz", 183>>,
            <<"Pwm339Hz", 184>>, <<"Pwm337Hz", 185>>, <<"Pwm336Hz", 186>>, <<"Pwm334Hz", 187>>,
            <<"Pwm332Hz", 188>>, <<"Pwm330Hz", 189>>, <<"Pwm329Hz", 190>>, <<"Pwm327Hz", 191>>,
            <<"Pwm325Hz", 192>>, <<"Pwm323Hz", 193>>, <<"Pwm322Hz", 194>>, <<"Pwm320Hz", 195>>,
            <<"Pwm319Hz", 196>>, <<"Pwm317Hz", 197>>, <<"Pwm315Hz", 198>>, <<"Pwm314Hz", 199>>,
            <<"Pwm312Hz", 200>>, <<"Pwm311Hz", 201>>, <<"Pwm309Hz", 202>>, <<"Pwm308Hz", 203>>,
            <<"Pwm306Hz", 204>>, <<"Pwm305Hz", 205>>, <<"Pwm303Hz", 206>>, <<"Pwm302Hz", 207>>,
            <<"Pwm300Hz", 208>>, <<"Pwm299Hz", 209>>, <<"Pwm297Hz", 210>>, <<"Pwm296Hz", 211>>,
            <<"Pwm295Hz", 212>>, <<"Pwm293Hz", 213>>, <<"Pwm292Hz", 214>>, <<"Pwm290Hz", 215>>,
            <<"Pwm289Hz", 216>>, <<"Pwm288Hz", 217>>, <<"Pwm287Hz", 218>>, <<"Pwm285Hz", 219>>,
            <<"Pwm284Hz", 220>>, <<"Pwm283Hz", 221>>, <<"Pwm281Hz", 222>>, <<"Pwm280Hz", 223>>,
            <<"Pwm279Hz", 224>>, <<"Pwm278Hz", 225>>, <<"Pwm276Hz", 226>>, <<"Pwm275Hz", 227>>,
            <<"Pwm274Hz", 228>>, <<"Pwm273Hz", 229>>, <<"Pwm272Hz", 230>>, <<"Pwm270Hz", 231>>,
            <<"Pwm269Hz", 232>>, <<"Pwm268Hz", 233>>, <<"Pwm267Hz", 234>>, <<"Pwm266Hz", 235>>,
            <<"Pwm265Hz", 236>>, <<"Pwm264Hz", 237>>, <<"Pwm263Hz", 238>>, <<"Pwm261Hz", 239>>,
            <<"Pwm260Hz", 240>>, <<"Pwm259Hz", 241>>, <<"Pwm258Hz", 242>>, <<"Pwm257Hz", 243>>,
            <<"Pwm256Hz", 244>>, <<"Pwm255Hz", 245>>, <<"Pwm254Hz", 246>>, <<"Pwm253Hz", 247>>,
            <<"Pwm252Hz", 248>>, <<"Pwm251Hz", 249>>, <<"Pwm250Hz", 250>>, <<"Pwm249Hz", 251>>,
            <<"Pwm248Hz", 252>>, <<"Pwm247Hz", 253>>, <<"Pwm246Hz", 254>>, <<"Pwm245Hz", 255>>
         >>
    IN
    [ struct  |-> "BacklightControl7",
      default |-> <<15>>,
      read    |-> [
          fp_wm_out |-> [form |-> "enum", enum |-> FpWmOut, of |-> [form |-> "byte", i |-> 0]]
      ],
      write   |-> [
          fp_wm_out |-> [form |-> "enum", enum |-> FpWmOut, of |-> [form |-> "byte", i |-> 0]]
      ] ]

\* mod backlight_control8: struct BacklightControl8 { data: [u8; 1] }
backlight_control8 ==
    LET Polarity ==
         <<
            <<"Low", 0>>, <<"High", 1>>
         >>
        LedonPin ==
         <<
            <<"Ledonr", 0>>, <<"InversedLedonr", 1>>
         >>
        LedpwmPin ==
         <<
            <<"OriginalPolarityOfPwmSignal", 0>>, <<"InversedPolarityOfPwmSignal", 1>>
         >>
    IN
    [ struct  |-> "BacklightControl8",
      default |-> <<0>>,
      read    |-> [
          polarity |-> [form |-> "enum", enum |-> Polarity, of |-> [form |-> "bits", i |-> 0, s |-> 2, m |-> 1]],
          ledon_pin |-> [form |-> "enum", enum |-> LedonPin, of |-> [form |-> "bits", i |-> 0, s |-> 1, m |-> 1]],
          ledpwm_pin |-> [form |-> "enum", enum |-> LedpwmPin, of |-> [form |-> "bits", i |-> 0, s |-> 0, m |-> 1]]
      ],
      write   |-> [
          polarity |-> [form |-> "enum", enum |-> Polarity, of |-> [form |-> "bits", i |-> 0, s |-> 2, m |-> 1]],
          ledon_pin |-> [form |-> "enum", enum |-> LedonPin, of |-> [form |-> "bits", i |-> 0, s |-> 1, m |-> 1]],
          ledpwm_pin |-> [form |-> "enum", enum |-> LedpwmPin, of |-> [form |-> "bits", i |-> 0, s |-> 0, m |-> 1]]
      ] ]

\* mod power_control1: struct PowerControl1 { data: [u8; 1] }
power_control1 ==
    LET Gvdd ==
         <<
            <<"N3o00V", 3>>, <<"N3o05V", 4>>, <<"N3o10V", 5>>, <<"N3o15V", 6>>, <<"N3o20V", 7>>,
            <<"N3o25V", 8>>, <<"N3o30V", 9>>, <<"N3o35V", 10>>, <<"N3o40V", 11>>, <<"N3o45V", 12>>,
            <<"N3o50V", 13>>, <<"N3o55V", 14>>, <<"N3o60V", 15>>, <<"N3o65V", 16>>, <<"N3o70V",
            17>>, <<"N3o75V", 18>>, <<"N3o80V", 19>>, <<"N3o85V", 20>>, <<"N3o90V", 21>>,
            <<"N3o95V", 22>>, <<"N4o00V", 23>>, <<"N4o05V", 24>>, <<"N4o10V", 25>>, <<"N4o15V",
            26>>, <<"N4o20V", 27>>, <<"N4o25V", 28>>, <<"N4o30V", 29>>, <<"N4o35V", 30>>,
            <<"N4o40V", 31>>, <<"N4o45V", 32>>, <<"N4o50V", 33>>, <<"N4o55V", 34>>, <<"N4o60V",
            35>>, <<"N4o65V", 36>>, <<"N4o70V", 37>>, <<"N4o75V", 38>>, <<"N4o80V", 39>>,
            <<"N4o85V", 40>>, <<"N4o90V", 41>>, <<"N4o95V", 42>>, <<"N5o00V", 43>>, <<"N5o05V",
            44>>, <<"N5o10V", 45>>, <<"N5o15V", 46>>, <<"N5o20V", 47>>, <<"N5o25V", 48>>,
            <<"N5o30V", 49>>, <<"N5o35V", 50>>, <<"N5o40V", 51>>, <<"N5o45V", 52>>, <<"N5o50V",
            53>>, <<"N5o55V", 54>>, <<"N5o60V", 55>>, <<"N5o65V", 56>>, <<"N5o70V", 57>>,
            <<"N5o75V", 58>>, <<"N5o80V", 59>>, <<"N5o85V", 60>>, <<"N5o90V", 61>>, <<"N5o95V",
            62>>, <<"N6o00V", 63>>
         >>
    IN
    [ struct  |-> "PowerControl1",
      default |-> <<33>>,
      read    |-> [
          gvdd |-> [form |-> "enum", enum |-> Gvdd, of |-> [form |-> "bits", i |-> 0, s |-> 0, m |-> 63]]
      ],
      write   |-> [
          gvdd |-> [form |-> "enum", enum |-> Gvdd, of |-> [form |-> "bits", i |-> 0, s |-> 0, m |-> 63]]
      ] ]

\* mod power_control2: struct PowerControl2 { data: [u8; 1] }
power_control2 ==
    LET Avdd ==
         <<
            <<"VciX2VciX7VciX4", 0>>, <<"VciX2VciX7VciX3", 1>>, <<"VciX2VciX6VciX4", 2>>,
            <<"VciX2VciX6VciX3", 3>>
         >>
    IN
    [ struct  |-> "PowerControl2",
      default |-> <<16>>,
      read    |-> [
          avdd |-> [form |-> "enum", enum |-> Avdd, of |-> [form |-> "bits", i |-> 0, s |-> 0, m |-> 7]]
      ],
      write   |-> [
          avdd |-> [form |-> "enum", enum |-> Avdd, of |-> [form |-> "bits", i |-> 0, s |-> 0, m |-> 7]]
      ] ]

\* mod vcom_control1: struct VcomControl1 { data: [u8; 2] }
vcom_control1 ==
    LET VcomhV ==
         <<
            <<"N2o700", 0>>, <<"N2o725", 1>>, <<"N2o750", 2>>, <<"N2o775", 3>>, <<"N2o800", 4>>,
            <<"N2o825", 5>>, <<"N2o850", 6>>, <<"N2o875", 7>>, <<"N2o900", 8>>, <<"N2o925", 9>>,
            <<"N2o950", 10>>, <<"N2o975", 11>>, <<"N3o000", 12>>, <<"N3o025", 13>>, <<"N3o050",
            14>>, <<"N3o075", 15>>, <<"N3o100", 16>>, <<"N3o125", 17>>, <<"N3o150", 18>>,
            <<"N3o175", 19>>, <<"N3o200", 20>>, <<"N3o225", 21>>, <<"N3o250", 22>>, <<"N3o275",
            23>>, <<"N3o300", 24>>, <<"N3o325", 25>>, <<"N3o350", 26>>, <<"N3o375", 27>>,
            <<"N3o400", 28>>, <<"N3o425", 29>>, <<"N3o450", 30>>, <<"N3o475", 31>>, <<"N3o500",
            32>>, <<"N3o525", 33>>, <<"N3o550", 34>>, <<"N3o575", 35>>, <<"N3o600", 36>>,
            <<"N3o625", 37>>, <<"N3o650", 38>>, <<"N3o675", 39>>, <<"N3o700", 40>>, <<"N3o725",
            41>>, <<"N3o750", 42>>, <<"N3o775", 43>>, <<"N3o800", 44>>, <<"N3o825", 45>>,
            <<"N3o850", 46>>, <<"N3o875", 47>>, <<"N3o900", 48>>, <<"N3o925", 49>>, <<"N3o950",
            50>>, <<"N3o975", 51>>, <<"N4o000", 52>>, <<"N4o025", 53>>, <<"N4o050", 54>>,
            <<"N4o075", 55>>, <<"N4o100", 56>>, <<"N4o125", 57>>, <<"N4o150", 58>>, <<"N4o175",
            59>>, <<"N4o200", 60>>, <<"N4o225", 61>>, <<"N4o250", 62>>, <<"N4o275", 63>>,
            <<"N4o300", 64>>, <<"N4o325", 65>>, <<"N4o350", 66>>, <<"N4o375", 67>>, <<"N4o400",
            68>>, <<"N4o425", 69>>, <<"N4o450", 70>>, <<"N4o475", 71>>, <<"N4o500", 72>>,
            <<"N4o525", 73>>, <<"N4o550", 74>>, <<"N4o575", 75>>, <<"N4o600", 76>>, <<"N4o625",
            77>>, <<"N4o650", 78>>, <<"N4o675", 79>>, <<"N4o700", 80>>, <<"N4o725", 81>>,
            <<"N4o750", 82>>, <<"N4o775", 83>>, <<"N4o800", 84>>, <<"N4o825", 85>>, <<"N4o850",
            86>>, <<"N4o875", 87>>, <<"N4o900", 88>>, <<"N4o925", 89>>, <<"N4o950", 90>>,
            <<"N4o975", 91>>, <<"N5o000", 92>>, <<"N5o025", 93>>, <<"N5o050", 94>>, <<"N5o075",
            95>>, <<"N5o100", 96>>, <<"N5o125", 97>>, <<"N5o150", 98>>, <<"N5o175", 99>>,
            <<"N5o200", 100>>, <<"N5o225", 101>>, <<"N5o250", 102>>, <<"N5o275", 103>>, <<"N5o300",
            104>>, <<"N5o325", 105>>, <<"N5o350", 106>>, <<"N5o375", 107>>, <<"N5o400", 108>>,
            <<"N5o425", 109>>, <<"N5o450", 110>>, <<"N5o475", 111>>, <<"N5o500", 112>>, <<"N5o525",
            113>>, <<"N5o550", 114>>, <<"N5o575", 115>>, <<"N5o600", 116>>, <<"N5o625", 117>>,
            <<"N5o650", 118>>, <<"N5o675", 119>>, <<"N5o700", 120>>, <<"N5o725", 121>>, <<"N5o750",
            122>>, <<"N5o775", 123>>, <<"N5o800", 124>>, <<"N5o825", 125>>, <<"N5o850", 126>>,
            <<"N5o875", 127>>
         >>
        VcomlV ==
         <<
            <<"NNeg2o500", 0>>, <<"NNeg2o475", 1>>, <<"NNeg2o450", 2>>, <<"NNeg2o425", 3>>,
            <<"NNeg2o400", 4>>, <<"NNeg2o375", 5>>, <<"NNeg2o350", 6>>, <<"NNeg2o325", 7>>,
            <<"NNeg2o300", 8>>, <<"NNeg2o275", 9>>, <<"NNeg2o250", 10>>, <<"NNeg2o225", 11>>,
            <<"NNeg2o200", 12>>, <<"NNeg2o175", 13>>, <<"NNeg2o150", 14>>, <<"NNeg2o125", 15>>,
            <<"NNeg2o100", 16>>, <<"NNeg2o075", 17>>, <<"NNeg2o050", 18>>, <<"NNeg2o025", 19>>,
            <<"NNeg2o000", 20>>, <<"NNeg1o975", 21>>, <<"NNeg1o950", 22>>, <<"NNeg1o925", 23>>,
            <<"NNeg1o900", 24>>, <<"NNeg1o875", 25>>, <<"NNeg1o850", 26>>, <<"NNeg1o825", 27>>,
            <<"NNeg1o800", 28>>, <<"NNeg1o775", 29>>, <<"NNeg1o750", 30>>, <<"NNeg1o725", 31>>,
            <<"NNeg1o700", 32>>, <<"NNeg1o675", 33>>, <<"NNeg1o650", 34>>, <<"NNeg1o625", 35>>,
            <<"NNeg1o600", 36>>, <<"NNeg1o575", 37>>, <<"NNeg1o550", 38>>, <<"NNeg1o525", 39>>,
            <<"NNeg1o500", 40>>, <<"NNeg1o475", 41>>, <<"NNeg1o450", 42>>, <<"NNeg1o425", 43>>,
            <<"NNeg1o400", 44>>, <<"NNeg1o375", 45>>, <<"NNeg1o350", 46>>, <<"NNeg1o325", 47>>,
            <<"NNeg1o300", 48>>, <<"NNeg1o275", 49>>, <<"NNeg1o250", 50>>, <<"NNeg1o225", 51>>,
            <<"NNeg1o200", 52>>, <<"NNeg1o175", 53>>, <<"NNeg1o150", 54>>, <<"NNeg1o125", 55>>,
            <<"NNeg1o100", 56>>, <<"NNeg1o075", 57>>, <<"NNeg1o050", 58>>, <<"NNeg1o025", 59>>,
            <<"NNeg1o000", 60>>, <<"NNeg0o975", 61>>, <<"NNeg0o950", 62>>, <<"NNeg0o925", 63>>,
            <<"NNeg0o900", 64>>, <<"NNeg0o875", 65>>, <<"NNeg0o850", 66>>, <<"NNeg0o825", 67>>,
            <<"NNeg0o800", 68>>, <<"NNeg0o775", 69>>, <<"NNeg0o750", 70>>, <<"NNeg0o725", 71>>,
            <<"NNeg0o700", 72>>, <<"NNeg0o675", 73>>, <<"NNeg0o650", 74>>, <<"NNeg0o625", 75>>,
            <<"NNeg0o600", 76>>, <<"NNeg0o575", 77>>, <<"NNeg0o550", 78>>, <<"NNeg0o525", 79>>,
            <<"NNeg0o500", 80>>, <<"NNeg0o475", 81>>, <<"NNeg0o450", 82>>, <<"NNeg0o425", 83>>,
            <<"NNeg0o400", 84>>, <<"NNeg0o375", 85>>, <<"NNeg0o350", 86>>, <<"NNeg0o325", 87>>,
            <<"NNeg0o300", 88>>, <<"NNeg0o275", 89>>, <<"NNeg0o250", 90>>, <<"NNeg0o225", 91>>,
            <<"NNeg0o200", 92>>, <<"NNeg0o175", 93>>, <<"NNeg0o150", 94>>, <<"NNeg0o125", 95>>,
            <<"NNeg0o100", 96>>, <<"NNeg0o075", 97>>, <<"NNeg0o050", 98>>, <<"NNeg0o025", 99>>,
            <<"N0", 100>>
         >>
    IN
    [ struct  |-> "VcomControl1",
      default |-> <<49, 60>>,
      read    |-> [
          vcomh_v |-> [form |-> "enum", enum |-> VcomhV, of |-> [form |-> "bits", i |-> 0, s |-> 0, m |-> 127]],
          vcoml_v |-> [form |-> "enum", enum |-> VcomlV, of |-> [form |-> "bits", i |-> 1, s |-> 0, m |-> 127]]
      ],
      write   |-> [
          vcomh_v |-> [form |-> "enum", enum |-> VcomhV, of |-> [form |-> "bits", i |-> 0, s |-> 0, m |-> 127]],
          vcoml_v |-> [form |-> "enum", enum |-> VcomlV, of |-> [form |-> "bits", i |-> 1, s |-> 0, m |-> 127]]
      ] ]

\* mod vcom_control2: struct VcomControl2 { data: [u8; 1] }
vcom_control2 ==
    [ struct  |-> "VcomControl2",
      default |-> <<192>>,
      read    |-> [
          vcom_setting_source |-> [form |-> "flag", of |-> [form |-> "bits", i |-> 0, s |-> 7, m |-> 1]],
          vcomh |-> [form |-> "biased_i8", i |-> 0, m |-> 127, sub |-> 1, add |-> -63]
      ],
      write   |-> [
          vcom_setting_source |-> [form |-> "flag", i |-> 0, s |-> 7],
          vcomh |-> [form |-> "biased_i8", sub |-> -63, add |-> 1, i |-> 0, m |-> 127]
      ] ]

\* mod nv_memory_write: struct NvMemory { data: [u8; 2] }
nv_memory_write ==
    LET ProgrammedNvMemorySelection ==
         <<
            <<"Id1Programming", 0>>, <<"Id2Programming", 1>>, <<"Id3Programming", 2>>,
            <<"Vmf60Programming", 4>>
         >>
    IN
    [ struct  |-> "NvMemory",
      default |-> <<0, 0>>,
      read    |-> [
          programmed_nv_memory_selection |-> [form |-> "enum", enum |-> ProgrammedNvMemorySelection, of |-> [form |-> "bits", i |-> 0, s |-> 0, m |-> 7]],
          the_programmed_data |-> [form |-> "byte", i |-> 1]
      ],
      write   |-> [
          programmed_nv_memory_selection |-> [form |-> "enum", enum |-> ProgrammedNvMemorySelection, of |-> [form |-> "bits", i |-> 0, s |-> 0, m |-> 7]],
          the_programmed_data |-> [form |-> "byte", i |-> 1]
      ] ]

\* mod nv_memory_protection_key: struct NvMemoryProtectionKey { data: [u8; 3] }
nv_memory_protection_key ==
    [ struct  |-> "NvMemoryProtectionKey",
      default |-> <<85, 170, 102>>,
      read    |-> [
          nv_memory_programming_protection_key |-> [form |-> "be24", i |-> 0, j |-> 1, k |-> 2]
      ],
      write   |-> [
          nv_memory_programming_protection_key |-> [form |-> "be24", i |-> 0, j |-> 1, k |-> 2]
      ] ]

\* mod nv_memory_status_read: struct NvMemoryStatus { data: [u8; 2] }
nv_memory_status_read ==
    LET Id2WriteCount ==
         <<
            <<"NoProgrammed", 0>>, <<"Programmed1Time", 1>>, <<"Programmed2Times", 3>>,
            <<"Programmed3Times", 7>>
         >>
        Id1WriteCount ==
         <<
            <<"NoProgrammed", 0>>, <<"Programmed1Time", 1>>, <<"Programmed2Times", 3>>,
            <<"Programmed3Times", 7>>
         >>
        TheStatusOfNvMemory ==
         <<
            <<"Busy", 1>>
         >>
        VmfWriteCount ==
         <<
            <<"NoProgrammed", 0>>, <<"Programmed1Time", 1>>, <<"Programmed2Times", 3>>,
            <<"Programmed3Times", 7>>
         >>
        Id3WriteCount ==
         <<
            <<"NoProgrammed", 0>>, <<"Programmed1Time", 1>>, <<"Programmed2Times", 3>>,
            <<"Programmed3Times", 7>>
         >>
    IN
    [ struct  |-> "NvMemoryStatus",
      default |-> <<0, 0>>,
      read    |-> [
          id2_write_count |-> [form |-> "enum", enum |-> Id2WriteCount, of |-> [form |-> "bits", i |-> 0, s |-> 4, m |-> 7]],
          id1_write_count |-> [form |-> "enum", enum |-> Id1WriteCount, of |-> [form |-> "bits", i |-> 0, s |-> 0, m |-> 7]],
          the_status_of_nv_memory |-> [form |-> "enum", enum |-> TheStatusOfNvMemory, of |-> [form |-> "bits", i |-> 1, s |-> 7, m |-> 1]],
          vmf_write_count |-> [form |-> "enum", enum |-> VmfWriteCount, of |-> [form |-> "bits", i |-> 1, s |-> 4, m |-> 7]],
          id3_write_count |-> [form |-> "enum", enum |-> Id3WriteCount, of |-> [form |-> "bits", i |-> 1, s |-> 0, m |-> 7]]
      ],
      write   |-> [
          id2_write_count |-> [form |-> "enum", enum |-> Id2WriteCount, of |-> [form |-> "bits", i |-> 0, s |-> 4, m |-> 7]],
          id1_write_count |-> [form |-> "enum", enum |-> Id1WriteCount, of |-> [form |-> "bits", i |-> 0, s |-> 0, m |-> 7]],
          the_status_of_nv_memory |-> [form |-> "enum", enum |-> TheStatusOfNvMemory, of |-> [form |-> "bits", i |-> 1, s |-> 7, m |-> 1]],
          vmf_write_count |-> [form |-> "enum", enum |-> VmfWriteCount, of |-> [form |-> "bits", i |-> 1, s |-> 4, m |-> 7]],
          id3_write_count |-> [form |-> "enum", enum |-> Id3WriteCount, of |-> [form |-> "bits", i |-> 1, s |-> 0, m |-> 7]]
      ] ]

\* mod read_id4: struct Id4 { data: [u8; 3] }
read_id4 ==
    [ struct  |-> "Id4",
      default |-> <<0, 147, 65>>,
      read    |-> <<>>,
      write   |-> <<>> ]

\* mod positive_gamma_correction: struct PositiveGammaCorrection { data: [u8; 15] }
positive_gamma_correction ==
    [ struct  |-> "PositiveGammaCorrection",
      default |-> <<8, 0, 0, 5, 0, 9, 0, 0, 0, 11, 0, 0, 0, 0, 0>>,
      read    |-> [
          vp63 |-> [form |-> "bits", i |-> 0, s |-> 0, m |-> 15],
          vp62 |-> [form |-> "bits", i |-> 1, s |-> 0, m |-> 63],
          vp61 |-> [form |-> "bits", i |-> 2, s |-> 0, m |-> 63],
          vp59 |-> [form |-> "bits", i |-> 3, s |-> 0, m |-> 15],
          vp57 |-> [form |-> "bits", i |-> 4, s |-> 0, m |-> 31],
          vp50 |-> [form |-> "bits", i |-> 5, s |-> 0, m |-> 15],
          vp43 |-> [form |-> "bits", i |-> 6, s |-> 0, m |-> 127],
          vp27 |-> [form |-> "bits", i |-> 7, s |-> 4, m |-> 15],
          vp36 |-> [form |-> "bits", i |-> 7, s |-> 0, m |-> 15],
          vp20 |-> [form |-> "bits", i |-> 8, s |-> 0, m |-> 127],
          vp13 |-> [form |-> "bits", i |-> 9, s |-> 0, m |-> 15],
          vp6 |-> [form |-> "bits", i |-> 10, s |-> 0, m |-> 31],
          vp4 |-> [form |-> "bits", i |-> 11, s |-> 0, m |-> 15],
          vp2 |-> [form |-> "bits", i |-> 12, s |-> 0, m |-> 63],
          vp1 |-> [form |-> "bits", i |-> 13, s |-> 0, m |-> 63],
          vp0 |-> [form |-> "bits", i |-> 14, s |-> 0, m |-> 15]
      ],
      write   |-> [
          vp63 |-> [form |-> "bits", i |-> 0, s |-> 0, m |-> 15],
          vp62 |-> [form |-> "bits", i |-> 1, s |-> 0, m |-> 63],
          vp61 |-> [form |-> "bits", i |-> 2, s |-> 0, m |-> 63],
          vp59 |-> [form |-> "bits", i |-> 3, s |-> 0, m |-> 15],
          vp57 |-> [form |-> "bits", i |-> 4, s |-> 0, m |-> 31],
          vp50 |-> [form |-> "bits", i |-> 5, s |-> 0, m |-> 15],
          vp43 |-> [form |-> "bits", i |-> 6, s |-> 0, m |-> 127],
          vp27 |-> [form |-> "bits", i |-> 7, s |-> 4, m |-> 15],
          vp36 |-> [form |-> "bits", i |-> 7, s |-> 0, m |-> 15],
          vp20 |-> [form |-> "bits", i |-> 8, s |-> 0, m |-> 127],
          vp13 |-> [form |-> "bits", i |-> 9, s |-> 0, m |-> 15],
          vp6 |-> [form |-> "bits", i |-> 10, s |-> 0, m |-> 31],
          vp4 |-> [form |-> "bits", i |-> 11, s |-> 0, m |-> 15],
          vp2 |-> [form |-> "bits", i |-> 12, s |-> 0, m |-> 63],
          vp1 |-> [form |-> "bits", i |-> 13, s |-> 0, m |-> 63],
          vp0 |-> [form |-> "bits", i |-> 14, s |-> 0, m |-> 15]
      ] ]

\* mod negative_gamma_correction: struct NegativeGammaCorrection { data: [u8; 15] }
negative_gamma_correction ==
    [ struct  |-> "NegativeGammaCorrection",
      default |-> <<8, 0, 0, 7, 0, 5, 0, 0, 0, 4, 0, 15, 0, 0, 15>>,
      read    |-> [
          vn63 |-> [form |-> "bits", i |-> 0, s |-> 0, m |-> 15],
          vn62 |-> [form |-> "bits", i |-> 1, s |-> 0, m |-> 63],
          vn61 |-> [form |-> "bits", i |-> 2, s |-> 0, m |-> 63],
          vn59 |-> [form |-> "bits", i |-> 3, s |-> 0, m |-> 15],
          vn57 |-> [form |-> "bits", i |-> 4, s |-> 0, m |-> 31],
          vn50 |-> [form |-> "bits", i |-> 5, s |-> 0, m |-> 15],
          vn43 |-> [form |-> "bits", i |-> 6, s |-> 0, m |-> 127],
          vn36 |-> [form |-> "bits", i |-> 7, s |-> 4, m |-> 15],
          vn27 |-> [form |-> "bits", i |-> 7, s |-> 0, m |-> 15],
          vn20 |-> [form |-> "bits", i |-> 8, s |-> 0, m |-> 127],
          vn13 |-> [form |-> "bits", i |-> 9, s |-> 0, m |-> 15],
          vn6 |-> [form |-> "bits", i |-> 10, s |-> 0, m |-> 31],
          vn4 |-> [form |-> "bits", i |-> 11, s |-> 0, m |-> 15],
          vn2 |-> [form |-> "bits", i |-> 12, s |-> 0, m |-> 63],
          vn1 |-> [form |-> "bits", i |-> 13, s |-> 0, m |-> 63],
          vn0 |-> [form |-> "bits", i |-> 14, s |-> 0, m |-> 15]
      ],
      write   |-> [
          vn63 |-> [form |-> "bits", i |-> 0, s |-> 0, m |-> 15],
          vn62 |-> [form |-> "bits", i |-> 1, s |-> 0, m |-> 63],
          vn61 |-> [form |-> "bits", i |-> 2, s |-> 0, m |-> 63],
          vn59 |-> [form |-> "bits", i |-> 3, s |-> 0, m |-> 15],
          vn57 |-> [form |-> "bits", i |-> 4, s |-> 0, m |-> 31],
          vn50 |-> [form |-> "bits", i |-> 5, s |-> 0, m |-> 15],
          vn43 |-> [form |-> "bits", i |-> 6, s |-> 0, m |-> 127],
          vn36 |-> [form |-> "bits", i |-> 7, s |-> 4, m |-> 15],
          vn27 |-> [form |-> "bits", i |-> 7, s |-> 0, m |-> 15],
          vn20 |-> [form |-> "bits", i |-> 8, s |-> 0, m |-> 127],
          vn13 |-> [form |-> "bits", i |-> 9, s |-> 0, m |-> 15],
          vn6 |-> [form |-> "bits", i |-> 10, s |-> 0, m |-> 31],
          vn4 |-> [form |-> "bits", i |-> 11, s |-> 0, m |-> 15],
          vn2 |-> [form |-> "bits", i |-> 12, s |-> 0, m |-> 63],
          vn1 |-> [form |-> "bits", i |-> 13, s |-> 0, m |-> 63],
          vn0 |-> [form |-> "bits", i |-> 14, s |-> 0, m |-> 15]
      ] ]

\* mod digital_gamma_control1: struct DigitalGammaControl1 { data: [u8; 16] }
digital_gamma_control1 ==
    [ struct  |-> "DigitalGammaControl1",
      default |-> <<0, 0, 0, 0, 0, 0, 0, 0, 0, 0, 0, 0, 0, 0, 0, 0>>,
      read    |-> [
          rca |-> [form |-> "slice", a |-> 0, b |-> 16],
          bca |-> [form |-> "slice", a |-> 0, b |-> 16]
      ],
      write   |-> [
          rca |-> [form |-> "slice", a |-> 0, b |-> 16, m |-> 15, s |-> 4],
          bca |-> [form |-> "slice", a |-> 0, b |-> 16, m |-> 15, s |-> 0]
      ] ]

\* mod digital_gamma_control2: struct DigitalGammaControl2 { data: [u8; 64] }
digital_gamma_control2 ==
    [ struct  |-> "DigitalGammaControl2",
      default |-> <<0, 0, 0, 0, 0, 0, 0, 0, 0, 0, 0, 0, 0, 0, 0, 0, 0, 0, 0, 0, 0, 0, 0, 0, 0, 0, 0, 0, 0, 0, 0, 0, 0, 0, 0, 0, 0, 0, 0, 0, 0, 0, 0, 0, 0, 0, 0, 0, 0, 0, 0, 0, 0, 0, 0, 0, 0, 0, 0, 0, 0, 0, 0, 0>>,
      read    |-> [
          rfa |-> [form |-> "slice", a |-> 0, b |-> 64],
          bfa |-> [form |-> "slice", a |-> 0, b |-> 64]
      ],
      write   |-> [
          rfa |-> [form |-> "slice", a |-> 0, b |-> 64, m |-> 15, s |-> 4],
          bfa |-> [form |-> "slice", a |-> 0, b |-> 64, m |-> 15, s |-> 0]
      ] ]

\* mod interface_control: struct InterfaceControl { data: [u8; 3] }
interface_control ==
    LET Expand16BbpRgbtO18BbpRgb ==
         <<
            <<"MsbIsInputtedToLsbR50EqR40R4G50EqG50B50EqB40B4", 0>>,
            <<"N0IsInputtedToLsbR50EqR400G50EqG50B50EqB400ExceptionR40B40Eq5H1FR50B50Eq6H3F", 1>>,
            <<"N1IsInputtedToLsbR50EqR401G50EqG50B50EqB401ExceptionR40B40Eq5H00R50B50Eq6H00", 2>>,
            <<"CompareR40G51B40CaseCase1REqGEqBR50EqR40G0G50EqG50B50EqB40G0Case2REqBgR50EqR40R4G50EqG50B50EqB40B0Case3REqGbR50EqR40G0G50EqG50B50EqB40B0Case4BEqGrR50EqR40R4G50EqG50B50EqB40G0",
            3>>
         >>
        DataTransferMode ==
         <<
            <<"NormalMsbFirstDefault", 0>>, <<"LittleEndianLsbFirst", 1>>
         >>
        DisplayOperationMode ==
         <<
            <<"InternalClockOperation", 0>>, <<"RgbInterfaceMode", 1>>, <<"VsyncInterfaceMode", 2>>,
            <<"SettingDisabled", 3>>
         >>
        InterfaceForRamAccess ==
         <<
            <<"SystemInterfaceOrVsyncInterface", 0>>, <<"RgbInterface", 1>>
         >>
        RgbInterfaceMode ==
         <<
            <<"N16Or18BitRgbInterface1TransferPerPixel", 0>>,
            <<"N6BitRgbInterface3TransferPerPixel", 1>>
         >>
    IN
    [ struct  |-> "InterfaceControl",
      default |-> <<1, 0, 0>>,
      read    |-> [
          my_eor |-> [form |-> "flag", of |-> [form |-> "bits", i |-> 0, s |-> 7, m |-> 1]],
          mx_eor |-> [form |-> "flag", of |-> [form |-> "bits", i |-> 0, s |-> 6, m |-> 1]],
          mv_eor |-> [form |-> "flag", of |-> [form |-> "bits", i |-> 0, s |-> 5, m |-> 1]],
          bgr_eor |-> [form |-> "flag", of |-> [form |-> "bits", i |-> 0, s |-> 3, m |-> 1]],
          memory_write_control |-> [form |-> "flag", of |-> [form |-> "bits", i |-> 0, s |-> 0, m |-> 1]],
          expand16_bbp_rgbt_o18_bbp_rgb |-> [form |-> "enum", enum |-> Expand16BbpRgbtO18BbpRgb, of |-> [form |-> "bits", i |-> 1, s |-> 4, m |-> 3]],
          select_the_method_of_display_data_transferring |-> [form |-> "bits", i |-> 1, s |-> 0, m |-> 3],
          data_transfer_mode |-> [form |-> "enum", enum |-> DataTransferMode, of |-> [form |-> "bits", i |-> 2, s |-> 5, m |-> 1]],
          display_operation_mode |-> [form |-> "enum", enum |-> DisplayOperationMode, of |-> [form |-> "bits", i |-> 2, s |-> 2, m |-> 3]],
          interface_for_ram_access |-> [form |-> "enum", enum |-> InterfaceForRamAccess, of |-> [form |-> "bits", i |-> 2, s |-> 1, m |-> 1]],
          rgb_interface_mode |-> [form |-> "enum", enum |-> RgbInterfaceMode, of |-> [form |-> "bits", i |-> 2, s |-> 0, m |-> 1]]
      ],
      write   |-> [
          my_eor |-> [form |-> "flag", i |-> 0, s |-> 7],
          mx_eor |-> [form |-> "flag", i |-> 0, s |-> 6],
          mv_eor |-> [form |-> "flag", i |-> 0, s |-> 5],
          bgr_eor |-> [form |-> "flag", i |-> 0, s |-> 3],
          memory_write_control |-> [form |-> "flag", i |-> 0, s |-> 0],
          expand16_bbp_rgbt_o18_bbp_rgb |-> [form |-> "enum", enum |-> Expand16BbpRgbtO18BbpRgb, of |-> [form |-> "bits", i |-> 1, s |-> 4, m |-> 3]],
          select_the_method_of_display_data_transferring |-> [form |-> "bits", i |-> 1, s |-> 0, m |-> 3],
          data_transfer_mode |-> [form |-> "enum", enum |-> DataTransferMode, of |-> [form |-> "bits", i |-> 2, s |-> 5, m |-> 1]],
          display_operation_mode |-> [form |-> "enum", enum |-> DisplayOperationMode, of |-> [form |-> "bits", i |-> 2, s |-> 2, m |-> 3]],
          interface_for_ram_access |-> [form |-> "enum", enum |-> InterfaceForRamAccess, of |-> [form |-> "bits", i |-> 2, s |-> 1, m |-> 1]],
          rgb_interface_mode |-> [form |-> "enum", enum |-> RgbInterfaceMode, of |-> [form |-> "bits", i |-> 2, s |-> 0, m |-> 1]]
      ] ]

\* the codec modules of the crate, by module name
Codec ==
    [ read_display_identification_information |-> read_display_identification_information,
      read_display_status |-> read_display_status,
      read_display_power_mode |-> read_display_power_mode,
      read_display_madctl |-> read_display_madctl,
      read_display_pixel_format |-> read_display_pixel_format,
      read_display_image_format |-> read_display_image_format,
      read_display_signal_mode |-> read_display_signal_mode,
      read_display_self_diagnostic_result |-> read_display_self_diagnostic_result,
      gamma |-> gamma,
      column_address |-> column_address,
      page_address |-> page_address,
      color |-> color,
      partial_area |-> partial_area,
      vertical_scrolling |-> vertical_scrolling,
      tearing_effect_line_on |-> tearing_effect_line_on,
      memory_access_control |-> memory_access_control,
      vertical_scrolling_start_address |-> vertical_scrolling_start_address,
      pixel_format |-> pixel_format,
      tear_scanline |-> tear_scanline,
      get_scanline |-> get_scanline,
      write_display_brightness |-> write_display_brightness,
      read_display_brightness |-> read_display_brightness,
      write_ctrl_display |-> write_ctrl_display,
      read_ctrl_display |-> read_ctrl_display,
      write_content_adaptive_brightness_control |-> write_content_adaptive_brightness_control,
      read_content_adaptive_brightness_control |-> read_content_adaptive_brightness_control,
      write_cabc_minimum_brightness |-> write_cabc_minimum_brightness,
      read_cabc_minimum_brightness |-> read_cabc_minimum_brightness,
      read_id1 |-> read_id1,
      read_id2 |-> read_id2,
      read_id3 |-> read_id3,
      rgb_interface_signal_control |-> rgb_interface_signal_control,
      frame_control_in_normal_mode |-> frame_control_in_normal_mode,
      frame_control_in_idle_mode |-> frame_control_in_idle_mode,
      frame_control_in_partial_mode |-> frame_control_in_partial_mode,
      display_inversion_control |-> display_inversion_control,
      blanking_porch_control |-> blanking_porch_control,
      display_function_control |-> display_function_control,
      entry_mode |-> entry_mode,
      backlight_control1 |-> backlight_control1,
      backlight_control2 |-> backlight_control2,
      backlight_control3 |-> backlight_control3,
      backlight_control4 |-> backlight_control4,
      backlight_control5 |-> backlight_control5,
      backlight_control7 |-> backlight_control7,
      backlight_control8 |-> backlight_control8,
      power_control1 |-> power_control1,
      power_control2 |-> power_control2,
      vcom_control1 |-> vcom_control1,
      vcom_control2 |-> vcom_control2,
      nv_memory_write |-> nv_memory_write,
      nv_memory_protection_key |-> nv_memory_protection_key,
      nv_memory_status_read |-> nv_memory_status_read,
      read_id4 |-> read_id4,
      positive_gamma_correction |-> positive_gamma_correction,
      negative_gamma_correction |-> negative_gamma_correction,
      digital_gamma_control1 |-> digital_gamma_control1,
      digital_gamma_control2 |-> digital_gamma_control2,
      interface_control |-> interface_control ]

(***************************************************************************)
(* `impl Controller`: for every public method the private call it ends in,  *)
(* the opcode it passes and the codec module of its Parameter Block.  ext   *)
(* marks the methods behind the feature Ili9341ExtendedCommandSet; the      *)
(* model is of a build with the feature enabled.                            *)
(***************************************************************************)
Controller ==
    [ no_operation |->
          [op |-> "command", opcode |-> 0, mod |-> "", ext |-> FALSE],
      software_reset |->
          [op |-> "command", opcode |-> 1, mod |-> "", ext |-> FALSE],
      read_display_identification_information |->
          [op |-> "read_parameters", opcode |-> 4, mod |-> "read_display_identification_information", ext |-> FALSE],
      read_display_status |->
          [op |-> "read_parameters", opcode |-> 9, mod |-> "read_display_status", ext |-> FALSE],
      read_display_power_mode |->
          [op |-> "read_parameters", opcode |-> 10, mod |-> "read_display_power_mode", ext |-> FALSE],
      read_display_madctl |->
          [op |-> "read_parameters", opcode |-> 11, mod |-> "read_display_madctl", ext |-> FALSE],
      read_display_pixel_format |->
          [op |-> "read_parameters", opcode |-> 12, mod |-> "read_display_pixel_format", ext |-> FALSE],
      read_display_image_format |->
          [op |-> "read_parameters", opcode |-> 13, mod |-> "read_display_image_format", ext |-> FALSE],
      read_display_signal_mode |->
          [op |-> "read_parameters", opcode |-> 14, mod |-> "read_display_signal_mode", ext |-> FALSE],
      read_display_self_diagnostic_result |->
          [op |-> "read_parameters", opcode |-> 15, mod |-> "read_display_self_diagnostic_result", ext |-> FALSE],
      enter_sleep_mode |->
          [op |-> "command", opcode |-> 16, mod |-> "", ext |-> FALSE],
      sleep_out |->
          [op |-> "command", opcode |-> 17, mod |-> "", ext |-> FALSE],
      partial_mode_on |->
          [op |-> "command", opcode |-> 18, mod |-> "", ext |-> FALSE],
      normal_display_mode_on |->
          [op |-> "command", opcode |-> 19, mod |-> "", ext |-> FALSE],
      display_inversion_off |->
          [op |-> "command", opcode |-> 32, mod |-> "", ext |-> FALSE],
      display_inversion_on |->
          [op |-> "command", opcode |-> 33, mod |-> "", ext |-> FALSE],
      gamma_set |->
          [op |-> "send_parameters", opcode |-> 38, mod |-> "gamma", ext |-> FALSE],
      display_off |->
          [op |-> "command", opcode |-> 40, mod |-> "", ext |-> FALSE],
      display_on |->
          [op |-> "command", opcode |-> 41, mod |-> "", ext |-> FALSE],
      column_address_set |->
          [op |-> "send_parameters", opcode |-> 42, mod |-> "column_address", ext |-> FALSE],
      page_address_set |->
          [op |-> "send_parameters", opcode |-> 43, mod |-> "page_address", ext |-> FALSE],
      memory_write |->
          [op |-> "send_parameters", opcode |-> 44, mod |-> "", ext |-> FALSE],
      color_set |->
          [op |-> "send_parameters", opcode |-> 45, mod |-> "color", ext |-> FALSE],
      memory_read |->
          [op |-> "read_parameters", opcode |-> 46, mod |-> "", ext |-> FALSE],
      partial_area |->
          [op |-> "send_parameters", opcode |-> 48, mod |-> "partial_area", ext |-> FALSE],
      vertical_scrolling_definition |->
          [op |-> "send_parameters", opcode |-> 51, mod |-> "vertical_scrolling", ext |-> FALSE],
      tearing_effect_line_off |->
          [op |-> "command", opcode |-> 52, mod |-> "", ext |-> FALSE],
      tearing_effect_line_on |->
          [op |-> "send_parameters", opcode |-> 53, mod |-> "tearing_effect_line_on", ext |-> FALSE],
      memory_access_control |->
          [op |-> "send_parameters", opcode |-> 54, mod |-> "memory_access_control", ext |-> FALSE],
      vertical_scrolling_start_address |->
          [op |-> "send_parameters", opcode |-> 55, mod |-> "vertical_scrolling_start_address", ext |-> FALSE],
      idle_mode_off |->
          [op |-> "command", opcode |-> 56, mod |-> "", ext |-> FALSE],
      idle_mode_on |->
          [op |-> "command", opcode |-> 57, mod |-> "", ext |-> FALSE],
      pixel_format_set |->
          [op |-> "send_parameters", opcode |-> 58, mod |-> "pixel_format", ext |-> FALSE],
      write_memory_continue |->
          [op |-> "send_parameters", opcode |-> 60, mod |-> "", ext |-> FALSE],
      read_memory_continue |->
          [op |-> "read_parameters", opcode |-> 62, mod |-> "", ext |-> FALSE],
      set_tear_scanline |->
          [op |-> "send_parameters", opcode |-> 68, mod |-> "tear_scanline", ext |-> FALSE],
      get_scanline |->
          [op |-> "read_parameters", opcode |-> 69, mod |-> "get_scanline", ext |-> FALSE],
      write_display_brightness |->
          [op |-> "send_parameters", opcode |-> 81, mod |-> "write_display_brightness", ext |-> FALSE],
      read_display_brightness |->
          [op |-> "read_parameters", opcode |-> 82, mod |-> "read_display_brightness", ext |-> FALSE],
      write_ctrl_display |->
          [op |-> "send_parameters", opcode |-> 83, mod |-> "write_ctrl_display", ext |-> FALSE],
      read_ctrl_display |->
          [op |-> "read_parameters", opcode |-> 84, mod |-> "read_ctrl_display", ext |-> FALSE],
      write_content_adaptive_brightness_control |->
          [op |-> "send_parameters", opcode |-> 85, mod |-> "write_content_adaptive_brightness_control", ext |-> FALSE],
      read_content_adaptive_brightness_control |->
          [op |-> "read_parameters", opcode |-> 86, mod |-> "read_content_adaptive_brightness_control", ext |-> FALSE],
      write_cabc_minimum_brightness |->
          [op |-> "send_parameters", opcode |-> 94, mod |-> "write_cabc_minimum_brightness", ext |-> FALSE],
      read_cabc_minimum_brightness |->
          [op |-> "read_parameters", opcode |-> 95, mod |-> "read_cabc_minimum_brightness", ext |-> FALSE],
      read_id1 |->
          [op |-> "read_parameters", opcode |-> 218, mod |-> "read_id1", ext |-> FALSE],
      read_id2 |->
          [op |-> "read_parameters", opcode |-> 219, mod |-> "read_id2", ext |-> FALSE],
      read_id3 |->
          [op |-> "read_parameters", opcode |-> 220, mod |-> "read_id3", ext |-> FALSE],
      rgb_interface_signal_control |->
          [op |-> "send_parameters", opcode |-> 176, mod |-> "rgb_interface_signal_control", ext |-> TRUE],
      frame_control_in_normal_mode |->
          [op |-> "send_parameters", opcode |-> 177, mod |-> "frame_control_in_normal_mode", ext |-> TRUE],
      frame_control_in_idle_mode |->
          [op |-> "send_parameters", opcode |-> 178, mod |-> "frame_control_in_idle_mode", ext |-> TRUE],
      frame_control_in_partial_mode |->
          [op |-> "send_parameters", opcode |-> 179, mod |-> "frame_control_in_partial_mode", ext |-> TRUE],
      display_inversion_control |->
          [op |-> "send_parameters", opcode |-> 180, mod |-> "display_inversion_control", ext |-> TRUE],
      blanking_porch_control |->
          [op |-> "send_parameters", opcode |-> 181, mod |-> "blanking_porch_control", ext |-> TRUE],
      display_function_control |->
          [op |-> "send_parameters", opcode |-> 182, mod |-> "display_function_control", ext |-> TRUE],
      entry_mode_set |->
          [op |-> "send_parameters", opcode |-> 183, mod |-> "entry_mode", ext |-> TRUE],
      backlight_control1 |->
          [op |-> "send_parameters", opcode |-> 184, mod |-> "backlight_control1", ext |-> TRUE],
      backlight_control2 |->
          [op |-> "send_parameters", opcode |-> 185, mod |-> "backlight_control2", ext |-> TRUE],
      backlight_control3 |->
          [op |-> "send_parameters", opcode |-> 186, mod |-> "backlight_control3", ext |-> TRUE],
      backlight_control4 |->
          [op |-> "send_parameters", opcode |-> 187, mod |-> "backlight_control4", ext |-> TRUE],
      backlight_control5 |->
          [op |-> "send_parameters", opcode |-> 188, mod |-> "backlight_control5", ext |-> TRUE],
      backlight_control7 |->
          [op |-> "send_parameters", opcode |-> 190, mod |-> "backlight_control7", ext |-> TRUE],
      backlight_control8 |->
          [op |-> "send_parameters", opcode |-> 191, mod |-> "backlight_control8", ext |-> TRUE],
      power_control1 |->
          [op |-> "send_parameters", opcode |-> 192, mod |-> "power_control1", ext |-> TRUE],
      power_control2 |->
          [op |-> "send_parameters", opcode |-> 193, mod |-> "power_control2", ext |-> TRUE],
      vcom_control1 |->
          [op |-> "send_parameters", opcode |-> 197, mod |-> "vcom_control1", ext |-> TRUE],
      vcom_control2 |->
          [op |-> "send_parameters", opcode |-> 199, mod |-> "vcom_control2", ext |-> TRUE],
      nv_memory_write |->
          [op |-> "send_parameters", opcode |-> 208, mod |-> "nv_memory_write", ext |-> TRUE],
      nv_memory_protection_key |->
          [op |-> "send_parameters", opcode |-> 209, mod |-> "nv_memory_protection_key", ext |-> TRUE],
      nv_memory_status_read |->
          [op |-> "read_parameters", opcode |-> 210, mod |-> "nv_memory_status_read", ext |-> TRUE],
      read_id4 |->
          [op |-> "read_parameters", opcode |-> 211, mod |-> "read_id4", ext |-> TRUE],
      positive_gamma_correction |->
          [op |-> "send_parameters", opcode |-> 224, mod |-> "positive_gamma_correction", ext |-> TRUE],
      negative_gamma_correction |->
          [op |-> "send_parameters", opcode |-> 225, mod |-> "negative_gamma_correction", ext |-> TRUE],
      digital_gamma_control1 |->
          [op |-> "send_parameters", opcode |-> 226, mod |-> "digital_gamma_control1", ext |-> TRUE],
      digital_gamma_control2 |->
          [op |-> "send_parameters", opcode |-> 227, mod |-> "digital_gamma_control2", ext |-> TRUE],
      interface_control |->
          [op |-> "send_parameters", opcode |-> 246, mod |-> "interface_control", ext |-> TRUE] ]

(***************************************************************************)
(* Parameter Blocks and builder closures.                                  *)
(***************************************************************************)
\* `Struct::default()` of codec module m
Default(m) == Codec[m].default

\* `[u8; N]`: the fixed length of the block of codec module m
BlockLen(m) == Len(Codec[m].default)

\* one setter call `.f(w)` on bytes D: the new bytes, or the panic
ApplySetter(m, D, f, w, oc) == WriteField(D, Codec[m].write[f], w, oc)

RECURSIVE ApplyBuilder(_, _, _, _)
\* a builder closure `|w| w.f1(a1).f2(a2)...` run on bytes D; b lists the calls in order
ApplyBuilder(m, D, b, oc) ==
    IF b = <<>> THEN Ok(D)
    ELSE LET r == ApplySetter(m, D, b[1][1], b[1][2], oc)
         IN  IF r.panic THEN Panic ELSE ApplyBuilder(m, r.val, Tail(b), oc)

\* the setters of the Write view of module m ("" is no block)
Setters(m) == IF m \in DOMAIN Codec THEN DOMAIN Codec[m].write ELSE {}

\* the accessors of the Read view of module m
Getters(m) == IF m \in DOMAIN Codec THEN DOMAIN Codec[m].read ELSE {}

\* the receive buffer of read method c: `let mut r = mod::Struct::default()`
ReceiveBuffer(c) == IF Controller[c].mod \in DOMAIN Codec THEN Default(Controller[c].mod) ELSE <<>>

(***************************************************************************)
(* The values the exploration hands to the accessors and to the transport. *)
(***************************************************************************)
\* n bytes, all b
Fill(n, b) == [k \in 1..n |-> b]

\* n bytes 0x11, 0x22, 0x33, ...
Ramp(n) == [k \in 1..n |-> (17 * k) % 256]

ByteSamples == {0, 31, 255}
LaneSamples == {0, 1, 85, 128, 255}
WireSamples == {0, 85, 170, 255}
RawBytes == {0, 165, 255}

\* slices shorter than, as long as and longer than the field
SliceArgs(d) ==
    LET L == d.b - d.a
    IN  {Fill(n, 255) : n \in {0, 1, L, L + 1}} \cup {Ramp(n) : n \in {L - 1, L}}

\* arguments of a setter: every value of interest of its type when rich,
\* a few representatives otherwise
SetterArgs(d, rich) ==
    CASE d.form = "enum" ->
            IF rich THEN Variants(d.enum) ELSE {d.enum[1][1], d.enum[Len(d.enum)][1]}
      [] d.form = "flag" -> BOOLEAN
      [] d.form = "byte" ->
            IF rich THEN LaneSamples \cup {2, 127, 254} ELSE ByteSamples
      [] d.form = "bits" ->
            IF rich THEN {0, 1, d.m - 1, d.m, (d.m + 1) % 256, 85, 170, 255} ELSE {0, 255}
      [] d.form = "inplace" ->
            IF rich THEN 0..255 ELSE ByteSamples \cup {64, 192}
      [] d.form = "biased" ->
            IF rich THEN (0..(d.m + 2)) \cup {254, 255} ELSE ByteSamples
      [] d.form = "biased_i8" ->
            IF rich THEN -128..127 ELSE {-63, 0, 64}
      [] d.form = "be16" ->
            IF rich THEN {h * 256 + l : h \in LaneSamples, l \in LaneSamples} \cup {16, 239, 319}
            ELSE {16, 239, 65535}
      [] d.form = "be16m" ->
            IF rich THEN {h * 256 + l : h \in (0..(d.m + 1)) \cup {255}, l \in LaneSamples}
            ELSE {16, 239, 65535}
      [] d.form = "be24" ->
            IF rich
            THEN {a * 65536 + b * 256 + c : a \in {0, 1, 128, 255}, b \in {0, 1, 128, 255}, c \in {0, 1, 128, 255}}
                 \cup {5614182, 16777216, 2147483647}
            ELSE {0, 1193046, 2147483647}
      [] d.form = "slice" -> SliceArgs(d)

\* a receive buffer that held D after the transport wrote sample bytes to a prefix of it
PrefixFills(D) ==
    {[k \in 1..Len(D) |-> IF k <= n THEN s ELSE D[k]] : n \in 0..Len(D), s \in WireSamples}

\* what the transport can leave in a receive buffer that held D: one byte
\* replaced by any value, or a written prefix of sample bytes
Fills(D) ==
    {[D EXCEPT ![k] = b] : k \in 1..Len(D), b \in 0..255} \cup PrefixFills(D)

\* slices handed to the raw memory commands
RawSlices == UNION {[1..n -> RawBytes] : n \in 0..MaxRaw}

\* `Result<(), Iface::Error>` of a transport operation
TransportResults == {"Ok", "Err1", "Err2"}

\* the Controller methods by the private call they end in
Methods(op) == {c \in DOMAIN Controller : Controller[c].op = op}

\* the codec modules whose block a read command returns
ReadBlocks == {Controller[c].mod : c \in Methods("read_parameters")} \ {""}

RECURSIVE Built(_, _, _)
\* the contents a block of module m can have after at most n sampled setter
\* calls on its Default (a call that panics yields no content)
Built(m, n, oc) ==
    IF n = 0 THEN {Default(m)}
    ELSE LET P == Built(m, n - 1, oc)
         IN  P \cup UNION {UNION {UNION {
                 LET r == ApplySetter(m, D, f, w, oc) IN IF r.panic THEN {} ELSE {r.val} :
                     w \in SetterArgs(Codec[m].write[f], FALSE)} :
                     f \in DOMAIN Codec[m].write} :
                     D \in P}

\* the contents a caller can hold a block of module m with
Starts(m, oc) ==
    Built(m, MaxPrefix, oc) \cup (IF m \in ReadBlocks THEN PrefixFills(Default(m)) ELSE {})

(***************************************************************************)
(* The three private calls of the Controller on its Interface.  A call is  *)
(* recorded as the Interface operation with the arguments it received.     *)
(***************************************************************************)
NoCall == [fn |-> "none"]

\* the last Interface call the method in progress made, NoCall before the first
call == IF calls = <<>> THEN NoCall ELSE calls[Len(calls)]

\* `fn command(&mut self, command: u8)`: iface.command(command), which returned res
command(opcode, res) == [fn |-> "command", command |-> opcode, res |-> res]

\* `fn send_parameters(&mut self, command: u8, data: &[u8])`: iface.send_parameters(command, data)
send_parameters(opcode, bytes, res) ==
    [fn |-> "send_parameters", command |-> opcode, data |-> bytes, res |-> res]

\* `fn read_parameters(&mut self, command: u8, data: &mut [u8])`: iface.read_parameters(command, data);
\* buf is the buffer as handed over, out the buffer as the transport left it
read_parameters(opcode, buf, out, res) ==
    [fn |-> "read_parameters", command |-> opcode, buf |-> buf, out |-> out, res |-> res]

(***************************************************************************)
(* Initial state: a Controller was constructed, no method was called.      *)
(***************************************************************************)
Init ==
    /\ overflow_checks \in BOOLEAN
    /\ pc = "idle"
    /\ method = ""
    /\ block = ""
    /\ base = <<>>
    /\ builder = <<>>
    /\ data = <<>>
    /\ calls = <<>>
    /\ ret = "none"

(***************************************************************************)
(* Controller methods.  c is the method called, res the result of the      *)
(* transport operation.                                                    *)
(***************************************************************************)
\* NoPayloadCommand that queues the opcode for a later flush and reports success
\* without calling the Interface
NoPayloadCommand_Queued ==
    /\ pc = "idle"
    /\ \E c \in Methods("command") :
        /\ pc' = "returned"
        /\ method' = c
        /\ ret' = "Ok"
    /\ UNCHANGED <<overflow_checks, block, base, builder, data, calls>>

\* NoPayloadCommand that sends the opcode with an empty parameter list,
\* `self.send_parameters(0xNN, &[])`
NoPayloadCommand_EmptyParameters ==
    /\ pc = "idle"
    /\ \E c \in Methods("command"), res \in TransportResults :
        /\ pc' = "returned"
        /\ method' = c
        /\ calls' = Append(calls, send_parameters(Controller[c].opcode, <<>>, res))
        /\ ret' = res
    /\ UNCHANGED <<overflow_checks, block, base, builder, data>>

\* a method without payload, `self.command(0xNN)`: one Interface call, its result returned
NoPayloadCommand ==
    /\ pc = "idle"
    /\ \E c \in Methods("command"), res \in TransportResults :
        /\ pc' = "returned"
        /\ method' = c
        /\ calls' = Append(calls, command(Controller[c].opcode, res))
        /\ ret' = res
    /\ UNCHANGED <<overflow_checks, block, base, builder, data>>

\* WriteBegin with a zeroed block, `Struct { data: [0; N] }`, in place of `Struct::default()`
WriteBegin_Zeroed ==
    /\ pc = "idle"
    /\ \E c \in Methods("send_parameters") :
        /\ Controller[c].mod # ""
        /\ pc' = "building"
        /\ method' = c
        /\ block' = Controller[c].mod
        /\ base' = Fill(BlockLen(Controller[c].mod), 0)
        /\ data' = Fill(BlockLen(Controller[c].mod), 0)
        /\ builder' = <<>>
    /\ UNCHANGED <<overflow_checks, calls, ret>>

\* a write method, first half: `mod::Struct::default()` is created and handed
\* to the caller's closure
WriteBegin ==
    /\ pc = "idle"
    /\ \E c \in Methods("send_parameters") :
        /\ Controller[c].mod # ""
        /\ pc' = "building"
        /\ method' = c
        /\ block' = Controller[c].mod
        /\ base' = Default(Controller[c].mod)
        /\ data' = Default(Controller[c].mod)
        /\ builder' = <<>>
    /\ UNCHANGED <<overflow_checks, calls, ret>>

\* the closure calls setter f with w; a panic in the setter aborts the process
\* before anything was sent
Setter ==
    /\ pc = "building"
    /\ Len(builder) < MaxSetters
    /\ \E f \in Setters(block) : \E w \in SetterArgs(Codec[block].write[f], FALSE) :
        LET r == ApplySetter(block, data, f, w, overflow_checks)
        IN  /\ pc' = IF r.panic THEN "aborted" ELSE "building"
            /\ data' = IF r.panic THEN data ELSE r.val
            /\ builder' = Append(builder, <<f, w>>)
    /\ UNCHANGED <<overflow_checks, method, block, base, calls, ret>>

\* WriteSend that streams every block through the memory_write opcode:
\* `self.send_parameters(0x2C, &block.data)`
WriteSend_MemoryWriteOpcode ==
    /\ pc = "building"
    /\ \E res \in TransportResults :
        /\ pc' = "returned"
        /\ calls' = Append(calls, send_parameters(44, data, res))
        /\ ret' = res
    /\ block' = ""
    /\ base' = <<>>
    /\ builder' = <<>>
    /\ data' = <<>>
    /\ UNCHANGED <<overflow_checks, method>>

\* a write method, second half: the closure returned,
\* `self.send_parameters(0xNN, &block.data)` and its result is the method's;
\* the closure and the temporary block are gone when the method returns
WriteSend ==
    /\ pc = "building"
    /\ \E res \in TransportResults :
        /\ pc' = "returned"
        /\ calls' = Append(calls, send_parameters(Controller[method].opcode, data, res))
        /\ ret' = res
    /\ block' = ""
    /\ base' = <<>>
    /\ builder' = <<>>
    /\ data' = <<>>
    /\ UNCHANGED <<overflow_checks, method>>

\* ReadCommand that receives into a copy and returns the untouched block:
\* `let r = mod::Struct::default(); self.read_parameters(0xNN, &mut r.data.clone())?; Ok(r)`
ReadCommand_ReturnsDefault ==
    /\ pc = "idle"
    /\ \E c \in Methods("read_parameters"), res \in TransportResults :
        /\ Controller[c].mod # ""
        /\ \E out \in Fills(ReceiveBuffer(c)) :
            /\ pc' = "returned"
            /\ method' = c
            /\ calls' = Append(calls, read_parameters(Controller[c].opcode, ReceiveBuffer(c), out, res))
            /\ ret' = res
            /\ block' = IF res = "Ok" THEN Controller[c].mod ELSE ""
            /\ base' = IF res = "Ok" THEN ReceiveBuffer(c) ELSE <<>>
            /\ data' = IF res = "Ok" THEN ReceiveBuffer(c) ELSE <<>>
    /\ UNCHANGED <<overflow_checks, builder>>

\* ReadCommand that discards the Interface result and returns the block anyway:
\* `let _ = self.read_parameters(0xNN, &mut r.data); Ok(r)`
ReadCommand_IgnoresError ==
    /\ pc = "idle"
    /\ \E c \in Methods("read_parameters"), res \in TransportResults :
        /\ Controller[c].mod # ""
        /\ \E out \in Fills(ReceiveBuffer(c)) :
            /\ pc' = "returned"
            /\ method' = c
            /\ calls' = Append(calls, read_parameters(Controller[c].opcode, ReceiveBuffer(c), out, res))
            /\ ret' = "Ok"
            /\ block' = Controller[c].mod
            /\ base' = out
            /\ data' = out
    /\ UNCHANGED <<overflow_checks, builder>>

\* a read method: `let mut r = mod::Struct::default();
\* self.read_parameters(0xNN, &mut r.data)?; Ok(r)`: the block is returned
\* only when the transport succeeded
ReadCommand ==
    /\ pc = "idle"
    /\ \E c \in Methods("read_parameters"), res \in TransportResults :
        /\ Controller[c].mod # ""
        /\ \E out \in Fills(ReceiveBuffer(c)) :
            /\ pc' = "returned"
            /\ method' = c
            /\ calls' = Append(calls, read_parameters(Controller[c].opcode, ReceiveBuffer(c), out, res))
            /\ ret' = res
            /\ block' = IF res = "Ok" THEN Controller[c].mod ELSE ""
            /\ base' = IF res = "Ok" THEN out ELSE <<>>
            /\ data' = IF res = "Ok" THEN out ELSE <<>>
    /\ UNCHANGED <<overflow_checks, builder>>

\* RawWrite that codes the caller's bytes as 6-bit colour components before sending:
\* `self.send_parameters(0xNN, &d.map(|b| b & 0x3F))`
RawWrite_Coded ==
    /\ pc = "idle"
    /\ \E c \in Methods("send_parameters"), d \in RawSlices, res \in TransportResults :
        /\ Controller[c].mod = ""
        /\ pc' = "returned"
        /\ method' = c
        /\ calls' = Append(calls, send_parameters(Controller[c].opcode, [n \in 1..Len(d) |-> BitAnd(d[n], 63)], res))
        /\ ret' = res
        /\ base' = d
        /\ data' = d
    /\ UNCHANGED <<overflow_checks, block, builder>>

\* memory_write / write_memory_continue: `self.send_parameters(0xNN, d)` with
\* the caller's slice d, which the caller keeps as it was
RawWrite ==
    /\ pc = "idle"
    /\ \E c \in Methods("send_parameters"), d \in RawSlices, res \in TransportResults :
        /\ Controller[c].mod = ""
        /\ pc' = "returned"
        /\ method' = c
        /\ calls' = Append(calls, send_parameters(Controller[c].opcode, d, res))
        /\ ret' = res
        /\ base' = d
        /\ data' = d
    /\ UNCHANGED <<overflow_checks, block, builder>>

\* memory_read / read_memory_continue: `self.read_parameters(0xNN, d)?; Ok(d)`
\* on the caller's own buffer d (base: as handed in, data: as returned)
RawRead ==
    /\ pc = "idle"
    /\ \E c \in Methods("read_parameters"), d \in RawSlices, res \in TransportResults :
        /\ Controller[c].mod = ""
        /\ \E out \in [1..Len(d) -> RawBytes] :
            /\ pc' = "returned"
            /\ method' = c
            /\ calls' = Append(calls, read_parameters(Controller[c].opcode, d, out, res))
            /\ ret' = res
            /\ base' = d
            /\ data' = IF res = "Ok" THEN out ELSE <<>>
    /\ UNCHANGED <<overflow_checks, block, builder>>

\* the caller reads a field of the block it holds: nothing changes unless the
\* accessor panics
Getter ==
    /\ \/ pc \in {"held", "written"}
       \/ pc = "returned" /\ block # "" /\ ret = "Ok" /\ Controller[method].op = "read_parameters"
    /\ \E f \in Getters(block) : ReadField(data, Codec[block].read[f], overflow_checks).panic
    /\ pc' = "aborted"
    /\ UNCHANGED <<overflow_checks, method, block, base, builder, data, calls, ret>>

\* the caller is done with the result; the transient block is dropped
Drop ==
    /\ pc = "returned"
    /\ pc' = "idle"
    /\ method' = ""
    /\ block' = ""
    /\ base' = <<>>
    /\ builder' = <<>>
    /\ data' = <<>>
    /\ calls' = <<>>
    /\ ret' = "none"
    /\ UNCHANGED overflow_checks

Next ==
    \/ NoPayloadCommand
    \/ WriteBegin
    \/ Setter
    \/ WriteSend
    \/ ReadCommand
    \/ RawWrite
    \/ RawRead
    \/ Getter
    \/ Drop

Spec == Init /\ [][Next]_vars

(***************************************************************************)
(* The codec alone: a caller holds a block of some module and calls one    *)
(* setter with any argument, then reads fields.                            *)
(***************************************************************************)
InitCodec ==
    /\ overflow_checks \in BOOLEAN
    /\ pc = "held"
    /\ method = ""
    /\ block \in DOMAIN Codec
    /\ base \in Starts(block, overflow_checks)
    /\ data = base
    /\ builder = <<>>
    /\ calls = <<>>
    /\ ret = "none"

\* `block.write(|w| w.f(v))` on the block in hand
CodecWrite ==
    /\ pc = "held"
    /\ \E f \in Setters(block) : \E w \in SetterArgs(Codec[block].write[f], TRUE) :
        LET r == ApplySetter(block, data, f, w, overflow_checks)
        IN  /\ pc' = IF r.panic THEN "aborted" ELSE "written"
            /\ data' = IF r.panic THEN data ELSE r.val
            /\ builder' = <<<<f, w>>>>
    /\ UNCHANGED <<overflow_checks, method, block, base, calls, ret>>

NextCodec ==
    \/ CodecWrite
    \/ Getter

SpecCodec == InitCodec /\ [][NextCodec]_vars

(***************************************************************************)
(* Vocabulary of the properties.                                           *)
(***************************************************************************)
\* the setter call CodecWrite made, once it made one
LastField == builder[Len(builder)][1]
LastArg == builder[Len(builder)][2]
LastWrite == Codec[block].write[LastField]
LastRead == Codec[block].read[LastField]

\* bit k of byte x
Bit(x, k) == (x \div (2 ^ k)) % 2

\* the bits of byte n of a block (n counts from 1) that belong to the field
\* with the integer layout d
RawMask(d, n) ==
    CASE d.form = "byte"  -> IF n = d.i + 1 THEN 255 ELSE 0
      [] d.form = "bits"  -> IF n = d.i + 1 THEN Shl8(d.m, d.s) ELSE 0
      [] d.form = "split" -> IF n = d.i + 1 THEN d.m ELSE IF n = d.j + 1 THEN Shl8(d.m2, d.s) ELSE 0

\* the bits of byte n of a block that belong to the field a setter with entry d writes
OwnMask(d, n) ==
    CASE d.form \in {"byte", "bits"} -> RawMask(d, n)
      [] d.form = "enum" -> RawMask(d.of, n)
      [] d.form = "flag" -> IF n = d.i + 1 THEN Shl8(1, d.s) ELSE 0
      [] d.form = "inplace" -> IF n = d.i + 1 THEN Shl8(d.m, d.s) ELSE 0
      [] d.form = "be16" -> IF n \in {d.i + 1, d.j + 1} THEN 255 ELSE 0
      [] d.form = "be16m" -> IF n = d.i + 1 THEN d.m ELSE IF n = d.j + 1 THEN 255 ELSE 0
      [] d.form = "be24" -> IF n \in {d.i + 1, d.j + 1, d.k + 1} THEN 255 ELSE 0
      [] d.form \in {"biased", "biased_i8"} -> IF n = d.i + 1 THEN d.m ELSE 0
      [] d.form = "slice" -> IF n > d.a /\ n <= d.b THEN Shl8(d.m, d.s) ELSE 0

\* byte x with the bits of mask cleared
Outside(x, mask) == BitAnd(x, Not8(mask))

(***************************************************************************)
(* C1.  Frame: a setter changes only the bits of its own field; every      *)
(* other bit of the same byte and every other byte of the block keep the   *)
(* value they had before the call.                                         *)
(***************************************************************************)
C1_SetterChangesOnlyOwnBits ==
    pc = "written" =>
        \A n \in 1..Len(data) :
            Outside(data[n], OwnMask(LastWrite, n)) = Outside(base[n], OwnMask(LastWrite, n))

\* C1 restricted to the setters that are not blob setters
C1_ScalarSetterChangesOnlyOwnBits ==
    (pc = "written" /\ LastWrite.form # "slice") =>
        \A n \in 1..Len(data) :
            Outside(data[n], OwnMask(LastWrite, n)) = Outside(base[n], OwnMask(LastWrite, n))

(***************************************************************************)
(* Integer fields that occupy one fixed run of bits.                       *)
(***************************************************************************)
\* the setter takes an integer or a flag and stores it in a fixed run of bits
BitRunForms == {"byte", "bits", "flag", "inplace", "biased", "biased_i8", "be16", "be16m", "be24"}

\* the largest value that fits in the width of the field written by entry d
MaxOfWidth(d) ==
    CASE d.form = "byte" -> 255
      [] d.form \in {"bits", "inplace", "biased", "biased_i8"} -> d.m
      [] d.form = "be16" -> 65535
      [] d.form = "be16m" -> d.m * 256 + 255
      [] d.form = "be24" -> 16777215

\* v fits in the width of the field written by entry d
FitsWidth(d, v) == d.form = "flag" \/ (0 <= v /\ v <= MaxOfWidth(d))

\* the semantic range of the biased fields: clock_per_line 16..=31; vfp, vbp
\* 2..=127; hfp, hbp 2..=31; vcomh -63..=63
SemanticRange(m, f) ==
    CASE f = "clock_per_line" -> 16..31
      [] f \in {"vfp", "vbp"} -> 2..127
      [] f \in {"hfp", "hbp"} -> 2..31
      [] f = "vcomh" -> -63..63

\* CodecWrite has run the setter of a field of one of the forms F (the
\* setter returned or panicked; data holds what it stored unless it panicked)
Wrote(F) == pc \in {"written", "aborted"} /\ builder # <<>> /\ LastWrite.form \in F

\* the setter call CodecWrite made panicked
SetterPanicked == ApplySetter(block, base, LastField, LastArg, overflow_checks).panic

\* what the read accessor of the field just written returns
ReadBack == ReadField(data, LastRead, overflow_checks)

(***************************************************************************)
(* C2.  Round trip of a fixed bit-run field: for any starting content and  *)
(* any value v that fits in the width of the field, the setter called with *)
(* v followed by the read accessor yields exactly v.                       *)
(***************************************************************************)
C2_RoundTripAnyFittingValue ==
    (Wrote(BitRunForms) /\ FitsWidth(LastWrite, LastArg)) =>
        /\ ~SetterPanicked
        /\ ~ReadBack.panic
        /\ ReadBack.val = LastArg

\* C2 as amended: the round trip yields v for every field whose accessors
\* exchange the value right-aligned; d of DisplaySelfDiagnosticResult
\* exchanges its value in place, at bits 7:6, and yields v with every other
\* bit cleared for any u8 v; a biased field yields v for v in its semantic
\* range.
C2_RoundTripAmended ==
    /\ (Wrote(BitRunForms \ {"inplace", "biased", "biased_i8"}) /\ FitsWidth(LastWrite, LastArg)) =>
            /\ ~SetterPanicked
            /\ ~ReadBack.panic
            /\ ReadBack.val = LastArg
    /\ Wrote({"inplace"}) =>
            /\ ~SetterPanicked
            /\ ~ReadBack.panic
            /\ ReadBack.val = BitAnd(LastArg, Shl8(LastWrite.m, LastWrite.s))
    /\ (Wrote({"biased", "biased_i8"}) /\ LastArg \in SemanticRange(block, LastField)) =>
            /\ ~SetterPanicked
            /\ ~ReadBack.panic
            /\ ReadBack.val = LastArg

\* a field that shares its byte with others was written with its largest
\* value over a content that is not the default
C2_Witness ==
    /\ pc = "written"
    /\ LastWrite.form = "bits"
    /\ LastWrite.s > 0
    /\ LastArg = LastWrite.m
    /\ base # Default(block)
    /\ data # base
    /\ ~ReadBack.panic
    /\ ReadBack.val = LastArg

(***************************************************************************)
(* C3.  Round trip of an enumeration field: for every declared variant and *)
(* any starting content, the setter called with the variant followed by    *)
(* the read accessor returns the same variant, and nothing aborts.         *)
(***************************************************************************)
C3_EnumRoundTrip ==
    Wrote({"enum"}) =>
        /\ ~SetterPanicked
        /\ ~ReadBack.panic
        /\ ReadBack.val = LastArg

\* the last declared variant of an enum with a code other than 0 was written
\* to a field that does not start at bit 0, over a non-default content
C3_Witness ==
    /\ pc = "written"
    /\ LastWrite.form = "enum"
    /\ LastWrite.of.form = "bits"
    /\ LastWrite.of.s > 0
    /\ LastArg = LastWrite.enum[Len(LastWrite.enum)][1]
    /\ Discriminant(LastWrite.enum, LastArg) # 0
    /\ base # Default(block)
    /\ data # base
    /\ ReadBack.val = LastArg

(***************************************************************************)
(* C5.  Multi-byte counters (16-bit, 9-bit sts, 10-bit gts, 24-bit key):   *)
(* for v within the width, write then read returns v, and the byte at the  *)
(* lower index holds the higher-order bits of v.                           *)
(***************************************************************************)
C5_CounterRoundTripMsbFirst ==
    (Wrote({"be16", "be16m", "be24"}) /\ FitsWidth(LastWrite, LastArg)) =>
        /\ ~SetterPanicked
        /\ ~ReadBack.panic
        /\ ReadBack.val = LastArg
        /\ LastWrite.i < LastWrite.j
        /\ data[LastWrite.j + 1] = (IF LastWrite.form = "be24" THEN LastArg \div 256 ELSE LastArg) % 256
        /\ LastWrite.form = "be16" => data[LastWrite.i + 1] = LastArg \div 256
        /\ LastWrite.form = "be16m" => BitAnd(data[LastWrite.i + 1], LastWrite.m) = LastArg \div 256
        /\ LastWrite.form = "be24" =>
              /\ LastWrite.j < LastWrite.k
              /\ data[LastWrite.i + 1] = LastArg \div 65536
              /\ data[LastWrite.k + 1] = LastArg % 256

\* a 16-bit counter was written with a value whose two bytes differ
C5_Witness ==
    /\ pc = "written"
    /\ LastWrite.form = "be16"
    /\ LastArg = 319
    /\ data[LastWrite.i + 1] = 1
    /\ data[LastWrite.j + 1] = 63
    /\ base # data

\* the wire code the setter computes for v before it masks it
WireCode(d, v) == AsU8(v - d.sub) + d.add

(***************************************************************************)
(* C6.  Biased fields: for v in the semantic range of the field,           *)
(* read(write(v)) = v, and the wire code fits the width of the field: no   *)
(* bit is lost to the mask or to integer overflow.                         *)
(***************************************************************************)
C6_BiasedRoundTrip ==
    (Wrote({"biased", "biased_i8"}) /\ LastArg \in SemanticRange(block, LastField)) =>
        /\ ~SetterPanicked
        /\ ~ReadBack.panic
        /\ ReadBack.val = LastArg
        /\ WireCode(LastWrite, LastArg) <= LastWrite.m
        /\ BitAnd(data[LastWrite.i + 1], LastWrite.m) = WireCode(LastWrite, LastArg)

\* vcomh was written with the lowest value of its range in a build with overflow checks
C6_Witness ==
    /\ pc = "written"
    /\ overflow_checks
    /\ LastField = "vcomh"
    /\ LastArg = -63
    /\ ReadBack.val = -63
    /\ data # base

\* the codes an enum declares
Codes(E) == {E[k][2] : k \in 1..Len(E)}

\* the enumeration-typed accessors of the Read view of module m
EnumGetters(m) == {f \in Getters(m) : Codec[m].read[f].form = "enum"}

(***************************************************************************)
(* C4.  An enumeration field whose bits hold a code the enumeration does   *)
(* not declare is never decoded to a variant: the read accessor panics,    *)
(* and a variant it does return is the one declared with the code held.    *)
(***************************************************************************)
C4_UndeclaredCodeNeverDecoded ==
    \A f \in EnumGetters(block) :
        LET d == Codec[block].read[f]
            code == ReadRaw(data, d.of)
            r == ReadField(data, d, overflow_checks)
        IN  /\ code \notin Codes(d.enum) => r.panic
            /\ ~r.panic => (r.val \in Variants(d.enum) /\ Discriminant(d.enum, r.val) = code)

\* a read command returned a block with an undeclared code in one of its
\* enumeration fields and the caller's read of a field aborted the process
C4_Witness ==
    /\ pc = "aborted"
    /\ Controller[method].op = "read_parameters"
    /\ ret = "Ok"
    /\ \E f \in EnumGetters(block) :
           /\ ReadRaw(data, Codec[block].read[f].of) \notin Codes(Codec[block].read[f].enum)
           /\ ReadRaw(data, Codec[block].read[f].of) # 0

(***************************************************************************)
(* C7.  Setters of one block commute: two distinct setters applied in      *)
(* either order leave the same bytes.                                      *)
(***************************************************************************)
C7_SettersCommute ==
    (pc = "building" /\ Len(builder) = 2 /\ builder[1][1] # builder[2][1]) =>
        LET r == ApplyBuilder(block, base, <<builder[2], builder[1]>>, overflow_checks)
        IN  /\ ~r.panic
            /\ r.val = data

\* the bits of byte n of the block of module m that belong to no field
ReservedMask(m, n) ==
    LET r(k) == IF \A f \in Setters(m) : Bit(OwnMask(Codec[m].write[f], n), k) = 0 THEN 2 ^ k ELSE 0
    IN  r(0) + r(1) + r(2) + r(3) + r(4) + r(5) + r(6) + r(7)

\* ReservedMask, for every module and byte
Reserved == [m \in DOMAIN Codec |-> [n \in 1..BlockLen(m) |-> ReservedMask(m, n)]]

C9_BuiltFromDefault ==
    pc = "building" =>
        LET m == Controller[method].mod
            r == ApplyBuilder(m, Codec[m].default, builder, overflow_checks)
        IN  /\ block = m
            /\ ~r.panic
            /\ data = r.val
            /\ builder = <<>> => data = Codec[m].default

\* when the builder returns, the method sends that block with its opcode
C9_SendsTheBlock ==
    (pc = "building" /\ pc' = "returned") =>
        /\ method' = method
        /\ call'.fn = "send_parameters"
        /\ call'.command = Controller[method].opcode
        /\ call'.data = data

(***************************************************************************)
(* C9.  A write command makes one send_parameters call with the opcode of  *)
(* the command and the bytes the builder produces from a fresh Default     *)
(* block; nothing of an earlier command is carried over, and a builder     *)
(* that calls no setter sends the default pattern.                         *)
(***************************************************************************)
C9_WriteSendsBuiltDefault == [] C9_BuiltFromDefault /\ [][C9_SendsTheBlock]_vars

\* column_address_set sent the block its builder `|w| w.sc(0x0010).ec(0x00EF)`
\* made of the default
C9_Witness ==
    /\ pc = "returned"
    /\ method = "column_address_set"
    /\ call.fn = "send_parameters"
    /\ call.command = 42
    /\ call.data = <<0, 16, 0, 239>>
    /\ call.data # Default("column_address")

(***************************************************************************)
(* C10.  A read command makes one read_parameters call with the opcode of  *)
(* the command and a buffer of the block's length that holds the default   *)
(* pattern; when the transport succeeds the block returned holds exactly   *)
(* what the transport left in the buffer.                                  *)
(***************************************************************************)
C10_ReadReturnsTransportBuffer ==
    (pc = "returned" /\ method \in Methods("read_parameters") /\ Controller[method].mod # "") =>
        LET m == Controller[method].mod
        IN  /\ call.fn = "read_parameters"
            /\ call.command = Controller[method].opcode
            /\ call.buf = Codec[m].default
            /\ Len(call.buf) = BlockLen(m)
            /\ ret = "Ok" =>
                  /\ block = m
                  /\ data = call.out
                  /\ \A n \in 1..BlockLen(m) : call.out[n] = call.buf[n] => data[n] = Codec[m].default[n]

\* read_display_status returned a block of which the transport wrote the
\* first two bytes only
C10_Witness ==
    /\ pc = "returned"
    /\ method = "read_display_status"
    /\ ret = "Ok"
    /\ call.command = 9
    /\ call.buf = <<0, 97, 0, 0>>
    /\ data = <<85, 85, 0, 0>>


(***************************************************************************)
(* Claims about the calls a Controller method makes on its Interface.      *)
(***************************************************************************)
\* the commands without payload and their opcodes, as the command set lists them
NoPayloadOpcodes ==
    [no_operation |-> 0, software_reset |-> 1, enter_sleep_mode |-> 16, sleep_out |-> 17,
     partial_mode_on |-> 18, normal_display_mode_on |-> 19, display_inversion_off |-> 32,
     display_inversion_on |-> 33, display_off |-> 40, display_on |-> 41,
     tearing_effect_line_off |-> 52, idle_mode_off |-> 56, idle_mode_on |-> 57]

(***************************************************************************)
(* C11.  Every command without payload results in exactly one Interface    *)
(* `command` call carrying the opcode of that command, and in no           *)
(* send_parameters or read_parameters call; the thirteen commands of the   *)
(* list are the methods of that shape.                                     *)
(***************************************************************************)
C11_NoPayloadCommandSendsOpcodeOnly ==
    /\ Methods("command") = DOMAIN NoPayloadOpcodes
    /\ (pc = "returned" /\ method \in DOMAIN NoPayloadOpcodes) =>
            \E res \in TransportResults : calls = <<command(NoPayloadOpcodes[method], res)>>

\* display_on returned after its one call with opcode 0x29
C11_Witness ==
    /\ pc = "returned"
    /\ method = "display_on"
    /\ calls = <<command(41, "Ok")>>
    /\ ret = "Ok"

\* a Controller method returned after an Interface call that failed
TransportFailed == pc = "returned" /\ calls # <<>> /\ call.res # "Ok"

\* the failed method returned the error of the Interface, after that one call,
\* and handed no block or buffer to its caller
C12_ErrorReturned ==
    TransportFailed =>
        /\ ret = call.res
        /\ Len(calls) = 1
        /\ block = ""
        /\ Controller[method].op = "read_parameters" => data = <<>>

\* between two methods the Controller accepts a call of every shape
C12_Usable ==
    pc = "idle" =>
        /\ calls = <<>>
        /\ ENABLED NoPayloadCommand
        /\ ENABLED WriteBegin
        /\ ENABLED ReadCommand
        /\ ENABLED RawWrite
        /\ ENABLED RawRead

\* after a failed method no call follows for that invocation: the Controller
\* is back between two methods
C12_NoRecovery == TransportFailed => (pc' = "idle" /\ calls' = <<>>)

(***************************************************************************)
(* C12.  When the Interface call of a Controller method fails with error   *)
(* e, the method returns exactly e, makes no further Interface call for    *)
(* that invocation, a read command returns no block, and the Controller    *)
(* accepts the next call.                                                  *)
(***************************************************************************)
C12_TransportErrorPropagates ==
    [] (C12_ErrorReturned /\ C12_Usable) /\ [][C12_NoRecovery]_vars

\* read_display_power_mode failed with the second error after the transport
\* had already changed the buffer
C12_Witness ==
    /\ pc = "returned"
    /\ method = "read_display_power_mode"
    /\ Len(calls) = 1
    /\ call.res = "Err2"
    /\ call.out # call.buf
    /\ ret = "Err2"
    /\ block = ""

(***************************************************************************)
(* Claims about the blob fields: ColorSet r, g, b; DigitalGammaControl1    *)
(* rca, bca; DigitalGammaControl2 rfa, bfa.                                *)
(***************************************************************************)
\* the mask each element of a blob field is documented to carry
BlobMask(m) == IF m = "color" THEN 63 ELSE 15

\* the number of elements of the blob field written by entry d
BlobLen(d) == d.b - d.a

(***************************************************************************)
(* C13.  For every blob field and every input as long as the field: after  *)
(* the setter wrote the input, the read accessor of the field returns the  *)
(* input with the mask of the field applied to each element.               *)
(***************************************************************************)
C13_BlobReadReturnsMaskedInput ==
    (Wrote({"slice"}) /\ Len(LastArg) = BlobLen(LastWrite)) =>
        /\ ~SetterPanicked
        /\ ~ReadBack.panic
        /\ ReadBack.val = [k \in 1..Len(LastArg) |-> BitAnd(LastArg[k], BlobMask(block))]

\* C13 for the fields stored in the low bits of their bytes (informative)
C13_LowBlobReadReturnsMaskedInput ==
    (Wrote({"slice"}) /\ Len(LastArg) = BlobLen(LastWrite) /\ LastWrite.s = 0) =>
        ReadBack.val = [k \in 1..Len(LastArg) |-> BitAnd(LastArg[k], BlobMask(block))]

\* setter call k of the builder handed a blob setter a slice shorter or
\* longer than the field
WrongLength(k) ==
    LET d == Codec[block].write[builder[k][1]]
    IN  d.form = "slice" /\ Len(builder[k][2]) # BlobLen(d)

(***************************************************************************)
(* C14.  A blob setter handed an input shorter or longer than its field    *)
(* reports a contract violation: the builder does not go on and the        *)
(* command is not sent with a partly written field.                        *)
(***************************************************************************)
C14_WrongLengthIsReported ==
    (block \in DOMAIN Codec /\ \E k \in 1..Len(builder) : WrongLength(k)) => pc = "aborted"

(***************************************************************************)
(* C15.  The payload length of a command is fixed: a write command passes  *)
(* send_parameters as many bytes as its block has, whatever the builder    *)
(* did (short and long slices handed to blob setters included; color_set   *)
(* always sends 128 bytes), and a read command passes read_parameters a    *)
(* buffer of the length of its block.                                      *)
(***************************************************************************)
C15_PayloadLengthIsFixed ==
    (pc = "returned" /\ Controller[method].mod # "") =>
        LET m == Controller[method].mod
        IN  /\ Len(calls) = 1
            /\ Controller[method].op = "send_parameters" =>
                    /\ Len(call.data) = Len(Codec[m].default)
                    /\ method = "color_set" => Len(call.data) = 128
            /\ Controller[method].op = "read_parameters" =>
                    /\ Len(call.buf) = Len(Codec[m].default)
                    /\ Len(call.out) = Len(Codec[m].default)

\* color_set sent its 128 bytes after the builder handed r a slice of one element
C15_Witness ==
    /\ pc = "returned"
    /\ method = "color_set"
    /\ Len(calls) = 1
    /\ Len(call.data) = 128
    /\ call.data[1] = 63
    /\ call.data[2] = 0

(***************************************************************************)
(* Claims about the raw pass-through commands.                             *)
(***************************************************************************)
\* the raw pass-through commands and their opcodes, as the command set lists them
RawOpcodes ==
    [memory_write |-> 44, write_memory_continue |-> 60,
     memory_read |-> 46, read_memory_continue |-> 62]

(***************************************************************************)
(* C16.  The raw pass-through commands do no field coding: memory_write    *)
(* and write_memory_continue call send_parameters with opcode 0x2C and     *)
(* 0x3C and exactly the caller's bytes; memory_read and                    *)
(* read_memory_continue call read_parameters with opcode 0x2E and 0x3E on  *)
(* the caller's buffer and on success return that buffer with the content  *)
(* the transport left in it.                                               *)
(***************************************************************************)
C16_RawPassThrough ==
    /\ {c \in DOMAIN Controller : Controller[c].mod = "" /\ Controller[c].op # "command"}
            = DOMAIN RawOpcodes
    /\ (pc = "returned" /\ method \in DOMAIN RawOpcodes) =>
            /\ Len(calls) = 1
            /\ call.command = RawOpcodes[method]
            /\ method \in {"memory_write", "write_memory_continue"} =>
                    /\ call.fn = "send_parameters"
                    /\ call.data = base
            /\ method \in {"memory_read", "read_memory_continue"} =>
                    /\ call.fn = "read_parameters"
                    /\ call.buf = base
                    /\ ret = "Ok" => data = call.out

\* read_memory_continue returned the caller's two-byte buffer as the transport filled it
C16_Witness ==
    /\ pc = "returned"
    /\ method = "read_memory_continue"
    /\ ret = "Ok"
    /\ call.command = 62
    /\ call.buf = <<0, 0>>
    /\ data = <<165, 255>>
    /\ call.out = <<165, 255>>

(***************************************************************************)
(* Claims about VcomControl2, whose vcomh is a signed, biased field.       *)
(***************************************************************************)
\* a caller holds the Default VcomControl2 block, untouched
HoldsDefaultVcomControl2 ==
    /\ block = "vcom_control2"
    /\ pc = "held"
    /\ data = Default("vcom_control2")

\* what the vcomh read accessor returns on the block in hand
ReadVcomh == ReadField(data, Codec["vcom_control2"].read.vcomh, overflow_checks)

(***************************************************************************)
(* C17.  The Default VcomControl2 block, whose single wire byte is 0xC0,   *)
(* decodes through the vcomh read accessor to -63.                         *)
(***************************************************************************)
C17_DefaultVcomhIsMinus63 ==
    HoldsDefaultVcomControl2 =>
        /\ data = <<192>>
        /\ ReadVcomh = Ok(-63)

\* C17 as amended: the Default VcomControl2 block, whose single wire byte is
\* 0xC0, decodes through the vcomh read accessor to 0 (the middle of the range
\* -63..=63; -63 is what the wire code 1, byte 0x81, decodes to).
C17_DefaultVcomhIsZero ==
    /\ HoldsDefaultVcomControl2 =>
            /\ data = <<192>>
            /\ ReadVcomh = Ok(0)
    /\ (block = "vcom_control2" /\ pc = "held" /\ data = <<129>>) => ReadVcomh = Ok(-63)

\* the Default VcomControl2 block is in a caller's hands and vcomh reads 0 on it
C17_Witness ==
    /\ HoldsDefaultVcomControl2
    /\ builder = <<>>
    /\ data[1] = 192
    /\ ~ReadVcomh.panic
    /\ ReadVcomh.val = 0

(***************************************************************************)
(* C18.  Writing vcomh = 0 on the Default VcomControl2 block produces the  *)
(* wire byte (0xC0 & ~0x7F) | ((0 - (-63) + 1) & 0x7F) = 0xC0, and reading *)
(* vcomh from that byte returns 0: the write and the read accessor use the *)
(* same bias arithmetic.                                                   *)
(***************************************************************************)
C18_VcomhZeroIsC0 ==
    (block = "vcom_control2" /\ base = Default("vcom_control2")
                             /\ builder = <<<<"vcomh", 0>>>>) =>
        /\ pc = "written"
        /\ data = <<BitOr(BitAnd(192, Not8(127)), BitAnd(0 - (-63) + 1, 127))>>
        /\ data = <<192>>
        /\ ReadVcomh = Ok(0)

\* vcomh = 0 was written on the Default VcomControl2 block
C18_Witness ==
    /\ block = "vcom_control2"
    /\ pc = "written"
    /\ base = <<192>>
    /\ builder = <<<<"vcomh", 0>>>>
    /\ data = <<192>>

(***************************************************************************)
(* End-to-end scenarios.                                                   *)
(***************************************************************************)
\* what read accessor f of the block in hand returns
Read(f) == ReadField(data, Codec[block].read[f], overflow_checks)

(***************************************************************************)
(* C19.  The Default ColumnAddressSet block decodes to sc = 0x0000 and     *)
(* ec = 0x00EF, and after write(|w| w.sc(0x0010).ec(0x00EF)) on it the     *)
(* block decodes to sc = 16 and ec = 0x00EF: bytes [0x00, 0x10, 0x00,      *)
(* 0xEF].                                                                  *)
(***************************************************************************)
C19_ColumnAddressScenario ==
    /\ (block = "column_address" /\ pc = "building" /\ builder = <<>>) =>
            /\ data = Default("column_address")
            /\ Read("sc") = Ok(0)
            /\ Read("ec") = Ok(239)
    /\ (block = "column_address" /\ builder = <<<<"sc", 16>>, <<"ec", 239>>>>) =>
            /\ pc = "building"
            /\ data = <<0, 16, 0, 239>>
            /\ Read("sc") = Ok(16)
            /\ Read("ec") = Ok(239)

\* the builder ran sc(0x0010) and then ec(0x00EF) on the Default ColumnAddressSet
C19_Witness ==
    /\ block = "column_address"
    /\ base = Default("column_address")
    /\ builder = <<<<"sc", 16>>, <<"ec", 239>>>>
    /\ Read("sc").val = 16

(***************************************************************************)
(* C20.  gamma_set with a builder that selects the gamma-curve-1 variant   *)
(* encodes the single parameter byte 0x01 and results in exactly one       *)
(* send_parameters call with opcode 0x26 and payload [0x01].               *)
(***************************************************************************)
C20_GammaSetScenario ==
    /\ (block = "gamma" /\ builder = <<<<"curve_selected", "GammaCurve1G2o2">>>>) =>
            /\ pc = "building"
            /\ data = <<1>>
    /\ (pc = "returned" /\ method = "gamma_set") =>
            \E res \in TransportResults : calls = <<send_parameters(38, <<1>>, res)>>

\* gamma_set returned after its one send_parameters call
C20_Witness ==
    /\ pc = "returned"
    /\ method = "gamma_set"
    /\ ret = "Ok"
    /\ calls = <<send_parameters(38, <<1>>, "Ok")>>

(***************************************************************************)
(* C21.  read_display_power_mode calls read_parameters with opcode 0x0A    *)
(* and a 1-byte buffer; when the transport fills it with 0x9C the returned *)
(* block decodes to booster = BoosterOnAndWorkingOk, sleep = SleepOutMode, *)
(* display_is = DisplayIsOn, idle_mode = IdleModeOff, partial_mode =       *)
(* PartialModeOff and display_normal_mode = DisplayNormalModeOn.           *)
(***************************************************************************)
C21_PowerModeScenario ==
    (pc = "returned" /\ method = "read_display_power_mode") =>
        /\ Len(calls) = 1
        /\ call.fn = "read_parameters"
        /\ call.command = 10
        /\ Len(call.buf) = 1
        /\ (ret = "Ok" /\ call.out = <<156>>) =>
                /\ block = "read_display_power_mode"
                /\ Read("booster") = Ok("BoosterOnAndWorkingOk")
                /\ Read("sleep") = Ok("SleepOutMode")
                /\ Read("display_is") = Ok("DisplayIsOn")
                /\ Read("idle_mode") = Ok("IdleModeOff")
                /\ Read("partial_mode") = Ok("PartialModeOff")
                /\ Read("display_normal_mode") = Ok("DisplayNormalModeOn")

\* read_display_power_mode returned the block the transport filled with 0x9C
C21_Witness ==
    /\ pc = "returned"
    /\ method = "read_display_power_mode"
    /\ ret = "Ok"
    /\ call.out = <<156>>
    /\ data = <<156>>
    /\ Read("booster").val = "BoosterOnAndWorkingOk"

\* the bytes the transport delivered to the read method that returned hold, in
\* some enumeration field of the block, a code the enumeration does not declare
DeliveredUndeclaredCode ==
    /\ pc = "returned"
    /\ Controller[method].op = "read_parameters"
    /\ Controller[method].mod # ""
    /\ call.res = "Ok"
    /\ \E f \in EnumGetters(Controller[method].mod) :
            LET d == Codec[Controller[method].mod].read[f]
            IN  ReadRaw(call.out, d.of) \notin Codes(d.enum)

(***************************************************************************)
(* C22.  Decode errors are surfaced by the Controller read method itself:  *)
(* when the bytes delivered by the transport hold an undeclared            *)
(* enumeration code for some field of the block, the read method ends in a *)
(* failure for its caller instead of returning success and leaving the     *)
(* failure to a later read accessor.                                       *)
(***************************************************************************)
C22_DecodeErrorSurfacedByReadMethod ==
    DeliveredUndeclaredCode => ret # "Ok"

\* between two invocations the Controller holds nothing of the previous one,
\* no call is made before an invocation reaches its Interface call, and an
\* invocation that returned made exactly one call, with its own opcode, whose
\* result it returned
C23_OneCallPerInvocation ==
    /\ pc = "idle" =>
            /\ calls = <<>>
            /\ method = ""
            /\ block = ""
            /\ data = <<>>
            /\ ret = "none"
    /\ pc = "building" => calls = <<>>
    /\ pc = "returned" =>
            /\ Len(calls) = 1
            /\ call.fn = Controller[method].op
            /\ call.command = Controller[method].opcode
            /\ ret = call.res

\* an invocation returns in the step in which its one Interface call returns,
\* whatever was invoked before it, and the next invocation starts only after
\* the caller took the result
C23_InInvocationOrder ==
    /\ (pc # "returned" /\ pc' = "returned") =>
            /\ calls = <<>>
            /\ Len(calls') = 1
            /\ call'.command = Controller[method'].opcode
            /\ ret' = call'.res
    /\ pc = "returned" => (pc' \in {"idle", "aborted"} /\ calls' \in {<<>>, calls})

(***************************************************************************)
(* C23.  The Controller caches nothing and issues calls strictly in order: *)
(* for every sequence of method invocations (any mix of no-payload, write, *)
(* read and raw commands, repeated ones and ones that follow a failure     *)
(* included) the transport observes exactly one call per invocation, in    *)
(* invocation order, each with the opcode of its invocation, and each      *)
(* invocation returns only after its transport call has returned.          *)
(***************************************************************************)
C23_NoCachingCallsInOrder ==
    [] C23_OneCallPerInvocation /\ [][C23_InInvocationOrder]_vars

\* sleep_out failed after its one call (a state reached again when
\* sleep_out is invoked after any earlier invocation, failed ones included)
C23_Witness ==
    /\ pc = "returned"
    /\ method = "sleep_out"
    /\ Len(calls) = 1
    /\ call.command = 17
    /\ call.res = "Err1"
    /\ ret = "Err1"

(***************************************************************************)
(* Claims about the arithmetic of the biased fields.                       *)
(***************************************************************************)
\* the bias of a biased field: the lowest value of its semantic range
Bias(f) ==
    CASE f \in {"vfp", "vbp", "hfp", "hbp"} -> 2
      [] f = "vcomh" -> -63
      [] f = "clock_per_line" -> 16

\* the wire code that stands for the lowest value of a biased field
LowestCode(f) ==
    CASE f \in {"vfp", "vbp", "hfp", "hbp"} -> 2
      [] f = "vcomh" -> 1
      [] f = "clock_per_line" -> 16

\* the biased read accessors of the block in hand
BiasedGetters ==
    {f \in Getters(block) : Codec[block].read[f].form \in {"biased", "biased_i8"}}

\* the wire code in the bits of biased field f of the block in hand
FieldCode(f) == BitAnd(data[Codec[block].read[f].i + 1], Codec[block].read[f].m)

(***************************************************************************)
(* C24.  For every biased field the setter stores wire = (value - bias)    *)
(* masked to the width of the field and the read accessor returns value =  *)
(* wire + bias, with bias 2 for the porch counts and -63 for vcomh:        *)
(* writing vfp = 2 stores wire code 0, and wire code 0 in the vcomh bits   *)
(* reads back as -63.                                                      *)
(***************************************************************************)
C24_WireIsValueLessBias ==
    /\ (Wrote({"biased", "biased_i8"}) /\ LastArg \in SemanticRange(block, LastField)) =>
            /\ ~SetterPanicked
            /\ FieldCode(LastField) = BitAnd(AsU8(LastArg - Bias(LastField)), LastWrite.m)
    /\ \A f \in BiasedGetters : Read(f) = Ok(FieldCode(f) + Bias(f))

\* C24 as amended: for every value of the semantic range of a biased field
\* the setter stores wire = value - bias + lowest code, and the read accessor
\* returns value = wire - lowest code + bias for every wire code from the
\* lowest code up; the lowest code is 2 for the porch counts (bias 2, so
\* wire = value), 16 for clock_per_line (bias 16) and 1 for vcomh (bias -63,
\* so wire = value + 64): writing vfp = 2 stores wire code 2, and wire code 1
\* in the vcomh bits reads back as -63.
C24_WireIsValueLessBiasPlusLowestCode ==
    /\ (Wrote({"biased", "biased_i8"}) /\ LastArg \in SemanticRange(block, LastField)) =>
            /\ ~SetterPanicked
            /\ FieldCode(LastField) = LastArg - Bias(LastField) + LowestCode(LastField)
    /\ \A f \in BiasedGetters :
            FieldCode(f) >= LowestCode(f) =>
                Read(f) = Ok(FieldCode(f) - LowestCode(f) + Bias(f))

\* vfp = 2 was written over another value and its bits hold wire code 2
C24_Witness ==
    /\ pc = "written"
    /\ block = "blanking_porch_control"
    /\ LastField = "vfp"
    /\ LastArg = 2
    /\ base[1] # 2
    /\ data[1] = 2
    /\ Read("vfp") = Ok(2)

\* the subrange of the block each blob field is documented to occupy:
\* <<first byte, byte after the last>>, counted from 0
BlobRange(m, f) ==
    CASE m = "color" /\ f = "r" -> <<0, 32>>
      [] m = "color" /\ f = "g" -> <<32, 96>>
      [] m = "color" /\ f = "b" -> <<96, 128>>
      [] m = "digital_gamma_control1" -> <<0, 16>>
      [] m = "digital_gamma_control2" -> <<0, 64>>

\* the position of the element of a blob field within its byte: the high
\* nibble for rca and rfa, the low bits for every other blob field
BlobShift(f) == IF f \in {"rca", "rfa"} THEN 4 ELSE 0

\* the smaller of two numbers
Min(x, y) == IF x <= y THEN x ELSE y

NvKeyBuilderSetNothing ==
    pc = "building" /\ method = "nv_memory_protection_key" /\ builder = <<>>

\* the block of such a builder is the default, which carries the key 0x55AA66
C26_DefaultCarriesKey ==
    NvKeyBuilderSetNothing =>
        /\ data = <<85, 170, 102>>
        /\ Read("nv_memory_programming_protection_key") = Ok(5614182)

\* when such a builder returns, the method makes its one call
C26_SendsKey ==
    (NvKeyBuilderSetNothing /\ pc' = "returned") =>
        \E res \in TransportResults : calls' = <<send_parameters(209, <<85, 170, 102>>, res)>>

(***************************************************************************)
(* C26.  nv_memory_protection_key called with a builder that sets nothing  *)
(* results in one send_parameters call with opcode 0xD1 and payload        *)
(* [0x55, 0xAA, 0x66]: the default block already carries the key 0x55AA66, *)
(* and the key read accessor of the default block returns 0x55AA66.        *)
(***************************************************************************)
C26_NvKeyDefault ==
    [] C26_DefaultCarriesKey /\ [][C26_SendsKey]_vars

\* nv_memory_protection_key returned after sending the default key
C26_Witness ==
    /\ pc = "returned"
    /\ method = "nv_memory_protection_key"
    /\ calls = <<send_parameters(209, <<85, 170, 102>>, "Ok")>>
    /\ ret = "Ok"

\* a caller holds the Default value of some Parameter Block type, untouched
HoldsDefault == pc = "held" /\ builder = <<>> /\ data = Default(block)

(***************************************************************************)
(* C27.  Default blocks decode cleanly: for every Parameter Block type,    *)
(* every read accessor applied to the Default value of the block returns a *)
(* value without aborting: every enumeration field of every default byte   *)
(* pattern holds a declared code.                                          *)
(***************************************************************************)
C27_DefaultsDecodeCleanly ==
    HoldsDefault => \A f \in Getters(block) : ~Read(f).panic

(***************************************************************************)
(* C28.  The biased accessors are total: for every argument of the         *)
(* parameter type of the setter (any u8 for clock_per_line, vfp, vbp, hfp, *)
(* hbp; any i8 for vcomh) and every byte content on the read side, the     *)
(* accessor completes without an integer underflow or overflow in its      *)
(* u8 / i8 arithmetic: it does not abort under overflow checks.            *)
(***************************************************************************)
C28_BiasedAccessorsTotal ==
    /\ Wrote({"biased", "biased_i8"}) => ~SetterPanicked
    /\ (block \in DOMAIN Codec /\ pc \in {"held", "written"}) =>
            \A f \in BiasedGetters : ~Read(f).panic

\* C28 on the read side alone (informative)
C28_BiasedReadTotal ==
    (block \in DOMAIN Codec /\ pc \in {"held", "written"}) =>
        \A f \in BiasedGetters : ~Read(f).panic

(***************************************************************************)
(* C29.  The opcode map is injective: no two distinct Controller command   *)
(* methods send the same opcode, so the opcode the transport observes      *)
(* identifies the Controller method that was called.                       *)
(***************************************************************************)
C29_OpcodeIdentifiesMethod ==
    /\ \A c1, c2 \in DOMAIN Controller :
            Controller[c1].opcode = Controller[c2].opcode => c1 = c2
    /\ (pc = "returned" /\ calls # <<>>) =>
            \A c \in DOMAIN Controller : Controller[c].opcode = call.command => c = method

\* write_memory_continue returned: its opcode 0x3C is that of no other method
C29_Witness ==
    /\ pc = "returned"
    /\ method = "write_memory_continue"
    /\ call.command = 60
    /\ Cardinality({c \in DOMAIN Controller : Controller[c].opcode = 60}) = 1

\* the builder called the same non-blob setter twice, with v1 and then v2
SameScalarSetterTwice ==
    /\ block \in DOMAIN Codec
    /\ Len(builder) = 2
    /\ builder[1][1] = builder[2][1]
    /\ LastWrite.form # "slice"

\* the first setter call of the builder, f(v1) of a non-blob field, aborted:
\* whatever f(v2) was to follow, the sequence f(v1), f(v2) yields no block
FirstScalarSetterAborted ==
    /\ block \in DOMAIN Codec
    /\ pc = "aborted"
    /\ Len(builder) = 1
    /\ LastWrite.form # "slice"
    /\ SetterPanicked

(***************************************************************************)
(* C30.  Last write wins for scalar fields: for every non-blob setter f,   *)
(* every starting content and all arguments v1, v2, applying f(v1) then    *)
(* f(v2) yields the same block bytes as applying f(v2) alone; every such   *)
(* setter is idempotent.                                                   *)
(***************************************************************************)
C30_LastWriteWins ==
    /\ SameScalarSetterTwice =>
            LET alone == ApplySetter(block, base, LastField, LastArg, overflow_checks)
            IN  IF alone.panic
                THEN pc = "aborted"
                ELSE pc = "building" /\ data = alone.val
    /\ FirstScalarSetterAborted =>
            \A v2 \in SetterArgs(LastWrite, FALSE) :
                ApplySetter(block, base, LastField, v2, overflow_checks).panic

\* C30 for the calls that complete (informative): after f(v1) returned on any
\* content, f(v2) gives what it gives on the content before f(v1)
C30_LastWriteWinsWhenNoAbort ==
    (pc = "written" /\ LastWrite.form # "slice") =>
        \A v2 \in SetterArgs(LastWrite, TRUE) :
            ApplySetter(block, data, LastField, v2, overflow_checks)
                = ApplySetter(block, base, LastField, v2, overflow_checks)
=============================================================================
